---------------------------- MODULE Spec2Model ----------------------------
(***************************************************************************)
(* A model of rosunit's junitxml.py: the JUnit XML result aggregator.      *)
(*                                                                         *)
(* Python strings are sequences: of one-character strings for names and    *)
(* attribute values, of code units (integers) for the text the sanitizer   *)
(* works on, of bytes (integers 0..255) for file contents.                 *)
(***************************************************************************)
EXTENDS Integers, Sequences, FiniteSets, TLC

VARIABLES
    \* ---- _read_file_safe_xml on one file (SpecSan) ----
    wide,        \* TRUE: a UCS-4 build of the interpreter, FALSE: a UCS-2 build
    san_bytes,   \* the bytes of the result file on disk
    san_prev,    \* the bytes of the file before the latest call
    san_x0,      \* x as decoded by the latest call (line 325 / 330)
    san_x,       \* x after the substitution loop of the latest call (line 333)
    san_ret,     \* the value returned by the latest call (line 338)
    san_calls,   \* number of calls of _read_file_safe_xml made so far
    \* ---- classname normalization of one testcase (SpecNorm) ----
    norm_attr,   \* node.getAttribute('classname')
    norm_name,   \* result.name
    norm_out,    \* tc_result.classname
    norm_pc,     \* "start" before line 271, "done" after line 284
    \* ---- Result.accumulate folds of three Results (SpecAcc) ----
    acc_in,      \* the Results A, B, C as constructed
    acc_items,   \* the same three objects in the second fold (accumulate
                 \* mutates the one it is called on)
    acc_status,  \* per item of the second fold: "free", "absorbed" (folded
                 \* into another item) or "folded" (folded into the root)
    acc_ids,     \* per item, the inputs whose cases it holds, in order
    acc_rootL,   \* root of the first fold: A, B, C in this order
    acc_nL,      \* number of Results folded into acc_rootL
    acc_rootR,   \* root of the second fold: any order, any grouping
    acc_orderR,  \* the inputs folded into acc_rootR, in fold order
    \* ---- one call of read (SpecRead) ----
    rd_file,     \* the result file test_file names
    rd_name,     \* test_name
    rd_out,      \* the Result read returned
    rd_pc,       \* "start", then "returned" or "raised"
    \* ---- read_all (SpecAll) ----
    results_dir, \* the test results directory: [exists, files]
    filter_,     \* the filter_ argument
    root_result, \* root_result
    dirs_left,   \* entries of os.listdir(dir_) the outer loop has not taken
    subdir,      \* the d of the outer loop
    files_left,  \* entries of os.listdir(subdir) the inner loop has not taken
    read_log,    \* the files read so far, in the order read
    pc,          \* "start", "dirs", "files", then "returned" or "raised"
    \* ---- Result.xml and read of the document written (SpecRT) ----
    rt_R,        \* the Result R
    rt_file,     \* the file holding R.xml()
    rt_out,      \* the Result read returned for rt_file
    rt_pc,       \* "start", "written", then "returned" or "raised"
    \* ---- XMLTestRunner.run (SpecRun) ----
    sys_stdout,  \* the object sys.stdout names
    sys_stderr,  \* the object sys.stderr names
    old_stdout,  \* old_stdout of run
    old_stderr,  \* old_stderr of run
    sio,         \* the text held by the two StringIO objects run creates
    run_result,  \* result of run, the _XMLTestResult: _tests, _error,
                 \* _failure, errors, failures, testsRun
    in_test,     \* the test between startTest and stopTest, 0 when none
    cb_log,      \* what the test execution did so far, in order
    out_s,       \* out_s of run
    err_s,       \* err_s of run
    report,      \* what print_report wrote to result_file
    run_pc,      \* "start", "tests", "restored", "reported", then "returned"
                 \* or "interrupted" or "report_raised"
    \* ---- the file handles of _read_file_safe_xml (SpecFh) ----
    fh_isfile,   \* os.path.isfile(test_file)
    fh_bytes,    \* the bytes of the file
    fh_f,        \* the variable f: 0 for None, else the handle it names
    fh_open,     \* the handles that are open
    fh_count,    \* number of handles opened so far
    fh_x,        \* the variable x
    fh_exc,      \* TRUE: an exception is on its way out of the function
    fh_pc        \* the line the function is at, then "returned" or "raised"

varsSan == <<wide, san_bytes, san_prev, san_x0, san_x, san_ret, san_calls>>

varsNorm == <<norm_attr, norm_name, norm_out, norm_pc>>

varsAcc == <<acc_in, acc_items, acc_status, acc_ids, acc_rootL, acc_nL,
             acc_rootR, acc_orderR>>

varsRead == <<rd_file, rd_name, rd_out, rd_pc>>

varsAll == <<results_dir, filter_, root_result, dirs_left, subdir, files_left,
             read_log, pc>>

varsRT == <<rt_R, rt_file, rt_out, rt_pc>>

varsRun == <<sys_stdout, sys_stderr, old_stdout, old_stderr, sio, run_result,
             in_test, cb_log, out_s, err_s, report, run_pc>>

varsFh == <<fh_isfile, fh_bytes, fh_f, fh_open, fh_count, fh_x, fh_exc, fh_pc>>

vars == <<varsSan, varsNorm, varsAcc, varsRead, varsAll, varsRT, varsRun,
          varsFh>>

(***************************************************************************)
(* Bounds of the model.                                                    *)
(***************************************************************************)
\* longest text (in code units) a sanitized file holds initially
MaxLen == 3
\* number of successive _read_file_safe_xml calls on the same file
MaxCalls == 2
\* number of pieces a classname attribute is put together from
MaxChunks == 3
\* significant bits of a float of the model (an IEEE 754 double has 53)
MantBits == 3
\* number of case results of a Result that is written and read back
MaxCases == 2
\* number of files below the test results directory
MaxFiles == 2
\* number of tests XMLTestRunner.run executes
MaxTests == 2
\* number of addError and addFailure calls during one run
MaxReports == 2
\* number of writes the tests of one run make to sys.stdout and sys.stderr
MaxWrites == 1

(***************************************************************************)
(* Generic helpers.                                                        *)
(***************************************************************************)
Min(a, b) == IF a < b THEN a ELSE b

Max(a, b) == IF a > b THEN a ELSE b

\* all sequences over S of length at most n
SeqUpTo(S, n) == UNION {[1..k -> S] : k \in 0..n}

\* Python slice s[a:b] for 0 <= a, 0 <= b (indices clamped to the length)
Slice(s, a, b) == SubSeq(s, Min(a, Len(s)) + 1, Min(b, Len(s)))

\* Python slice s[a:]
SliceFrom(s, a) == SubSeq(s, Min(a, Len(s)) + 1, Len(s))

\* s.startswith(p)
StartsWith(s, p) == Len(p) <= Len(s) /\ SubSeq(s, 1, Len(p)) = p

\* s.endswith(p)
EndsWith(s, p) ==
    Len(p) <= Len(s) /\ SubSeq(s, Len(s) - Len(p) + 1, Len(s)) = p

\* sub occurs in s at 0-based offset k
OccursAt(s, sub, k) ==
    k + Len(sub) <= Len(s) /\ SubSeq(s, k + 1, k + Len(sub)) = sub

\* sub in s
Contains(s, sub) == \E k \in 0..Len(s) : OccursAt(s, sub, k)

\* s.find(sub): the lowest offset sub occurs at, -1 when it does not occur
Find(s, sub) ==
    IF Contains(s, sub)
    THEN CHOOSE k \in 0..Len(s) :
            OccursAt(s, sub, k) /\ \A j \in 0..(k - 1) : ~OccursAt(s, sub, j)
    ELSE -1

\* the concatenation of a sequence of strings
RECURSIVE Concat(_)
Concat(ss) == IF ss = <<>> THEN <<>> ELSE Head(ss) \o Concat(Tail(ss))

(***************************************************************************)
(* RE_XML_ILLEGAL (junitxml.py 305-311) over sequences of code units.      *)
(***************************************************************************)
QMARK == 63

NEWLINE == 10

\* [\ud800-\udbff]
IsHighSurrogate(c) == c >= 55296 /\ c <= 56319

\* [\udc00-\udfff]
IsLowSurrogate(c) == c >= 56320 /\ c <= 57343

\* first alternative: the controls other than tab, LF and CR, U+FFFE, U+FFFF
IsIllegalControl(c) ==
    \/ c >= 0 /\ c <= 8
    \/ c >= 11 /\ c <= 12
    \/ c >= 14 /\ c <= 31
    \/ c >= 65534 /\ c <= 65535

\* "$" without re.MULTILINE at 0-based position q: the end of the string, or
\* just before a newline that ends the string
AtDollar(x, q) == q = Len(x) \/ (q = Len(x) - 1 /\ x[Len(x)] = NEWLINE)

\* Length of the match of RE_XML_ILLEGAL that starts at 0-based position p of
\* x, 0 when there is none. The alternatives are tried in the order written.
MatchLenAt(x, p) ==
    IF p >= Len(x) THEN 0
    ELSE IF IsIllegalControl(x[p + 1]) THEN 1
    ELSE IF IsHighSurrogate(x[p + 1]) /\ p + 2 <= Len(x)
            /\ ~IsLowSurrogate(x[p + 2]) THEN 2
    ELSE IF ~IsHighSurrogate(x[p + 1]) /\ p + 2 <= Len(x)
            /\ IsLowSurrogate(x[p + 2]) THEN 2
    ELSE IF IsHighSurrogate(x[p + 1]) /\ AtDollar(x, p + 1) THEN 1
    ELSE IF p = 0 /\ IsLowSurrogate(x[p + 1]) THEN 1
    ELSE 0

\* _safe_xml_regex.finditer(x): the non-overlapping matches, left to right,
\* as <<start, end>> pairs (0-based, end exclusive), scanning from p
RECURSIVE FindIterFrom(_, _)
FindIterFrom(x, p) ==
    IF p >= Len(x) THEN <<>>
    ELSE LET n == MatchLenAt(x, p)
         IN  IF n > 0 THEN <<(<<p, p + n>>)>> \o FindIterFrom(x, p + n)
             ELSE FindIterFrom(x, p + 1)

FindIter(x) == FindIterFrom(x, 0)

\* line 333: x = x[:match.start()] + "?" + x[match.end():]
SubstituteOne(x, m) == Slice(x, 0, m[1]) \o <<QMARK>> \o SliceFrom(x, m[2])

\* lines 332-333: the matches are those of the text as read; each is applied,
\* with its offsets in that text, to the text as rewritten so far
RECURSIVE SubstituteAll(_, _)
SubstituteAll(x, ms) ==
    IF ms = <<>> THEN x
    ELSE SubstituteAll(SubstituteOne(x, Head(ms)), Tail(ms))

SanitizeText(x) == SubstituteAll(x, FindIter(x))

(***************************************************************************)
(* The codecs of Python 2 the function reads and writes with.              *)
(***************************************************************************)
\* the UTF-8 bytes of one code point
Utf8Bytes(c) ==
    IF c < 128 THEN <<c>>
    ELSE IF c < 2048 THEN <<192 + (c \div 64), 128 + (c % 64)>>
    ELSE IF c < 65536
         THEN <<224 + (c \div 4096), 128 + ((c \div 64) % 64), 128 + (c % 64)>>
    ELSE <<240 + (c \div 262144), 128 + ((c \div 4096) % 64),
           128 + ((c \div 64) % 64), 128 + (c % 64)>>

\* x.encode("utf-8") (line 334): a high surrogate followed by a low one is
\* written as the code point the pair stands for, any other surrogate as
\* three bytes
RECURSIVE Utf8Encode(_)
Utf8Encode(x) ==
    IF x = <<>> THEN <<>>
    ELSE IF IsHighSurrogate(x[1]) /\ Len(x) >= 2 /\ IsLowSurrogate(x[2])
         THEN Utf8Bytes(65536 + (x[1] - 55296) * 1024 + (x[2] - 56320))
              \o Utf8Encode(SliceFrom(x, 2))
    ELSE Utf8Bytes(x[1]) \o Utf8Encode(Tail(x))

IsCont(b) == b >= 128 /\ b <= 191

\* number of bytes of the sequence a lead byte starts, 0 for no lead byte
Utf8CodeLength(b) ==
    IF b < 128 THEN 1
    ELSE IF b >= 194 /\ b <= 223 THEN 2
    ELSE IF b >= 224 /\ b <= 239 THEN 3
    ELSE IF b >= 240 /\ b <= 244 THEN 4
    ELSE 0

\* a code point above U+FFFF as the build stores it
StoreCodePoint(c, w) ==
    IF c < 65536 \/ w THEN <<c>>
    ELSE <<55296 + ((c - 65536) \div 1024), 56320 + ((c - 65536) % 1024)>>

\* codecs.open(test_file, "r", "utf-8").read() (lines 324-325): the stream
\* reader decodes without the final flag, so a sequence cut short by the end
\* of the data is left undecoded, and encoded surrogates are accepted.
\* Returns [ok, text]; ok = FALSE is UnicodeDecodeError.
RECURSIVE Utf8Decode(_, _)
Utf8Decode(bs, w) ==
    IF bs = <<>> THEN [ok |-> TRUE, text |-> <<>>]
    ELSE
      LET n == Utf8CodeLength(bs[1])
          bad == [ok |-> FALSE, text |-> <<>>]
          rest(k, c) == LET r == Utf8Decode(SliceFrom(bs, k), w)
                        IN  IF r.ok
                            THEN [ok |-> TRUE,
                                  text |-> StoreCodePoint(c, w) \o r.text]
                            ELSE bad
      IN  IF n = 0 THEN bad
          ELSE IF n > Len(bs) THEN [ok |-> TRUE, text |-> <<>>]
          ELSE IF n = 1 THEN rest(1, bs[1])
          ELSE IF n = 2
               THEN IF ~IsCont(bs[2]) THEN bad
                    ELSE rest(2, (bs[1] - 192) * 64 + (bs[2] - 128))
          ELSE IF n = 3
               THEN IF ~IsCont(bs[2]) \/ ~IsCont(bs[3])
                       \/ (bs[1] = 224 /\ bs[2] < 160) THEN bad
                    ELSE rest(3, (bs[1] - 224) * 4096 + (bs[2] - 128) * 64
                                 + (bs[3] - 128))
          ELSE IF ~IsCont(bs[2]) \/ ~IsCont(bs[3]) \/ ~IsCont(bs[4])
                  \/ (bs[1] = 240 /\ bs[2] < 144)
                  \/ (bs[1] = 244 /\ bs[2] > 143) THEN bad
               ELSE rest(4, (bs[1] - 240) * 262144 + (bs[2] - 128) * 4096
                            + (bs[3] - 128) * 64 + (bs[4] - 128))

\* codecs.open(test_file, "r", "iso8859-1").read() (lines 329-330)
Latin1Decode(bs) == bs

\* lines 323-330: UTF-8 first, ISO 8859-1 when that raises
DecodeFile(bs, w) ==
    LET u == Utf8Decode(bs, w)
    IN  IF u.ok THEN u.text ELSE Latin1Decode(bs)

(***************************************************************************)
(* Floats. A Python float is an IEEE 754 double: a sum is the exact sum    *)
(* rounded to the nearest value with 53 significant bits, ties to even.    *)
(* The model's floats are non-negative multiples of half a second with     *)
(* MantBits significant bits, rounded the same way.                        *)
(***************************************************************************)
RECURSIVE Pow2(_)
Pow2(n) == IF n = 0 THEN 1 ELSE 2 * Pow2(n - 1)

\* the spacing of the floats around n >= 0
RECURSIVE UlpFrom(_, _)
UlpFrom(n, u) == IF n < u * Pow2(MantBits) THEN u ELSE UlpFrom(n, 2 * u)

\* the float nearest to the number n >= 0, ties to the even significand
RoundFloat(n) ==
    LET u == UlpFrom(n, 1)
        q == n \div u
        r == n % u
    IN  IF 2 * r > u \/ (2 * r = u /\ q % 2 = 1) THEN (q + 1) * u ELSE q * u

\* a + b on floats (line 215)
FAdd(a, b) == RoundFloat(a + b)

(***************************************************************************)
(* The Result model (junitxml.py 76-228).                                  *)
(***************************************************************************)
\* TestCaseResult.__init__ (lines 115-124); src is not a field of the class:
\* it records the testcase element the object was loaded from
TestCaseResult(name) ==
    [name |-> name, failures |-> <<>>, errors |-> <<>>, time |-> 0,
     classname |-> <<>>, src |-> <<>>]

\* TestCaseResult._passed (lines 126-131)
Passed(tc) == tc.errors = <<>> /\ tc.failures = <<>>

\* Result.__init__ (lines 196-204)
Result(name, num_errors, num_failures, num_tests) ==
    [name |-> name, num_errors |-> num_errors, num_failures |-> num_failures,
     num_tests |-> num_tests, test_case_results |-> <<>>, system_out |-> <<>>,
     system_err |-> <<>>, time |-> 0]

\* mutant of Accumulate: num_tests is assigned, not added (line 214)
Accumulate_AssignTests(self, r) ==
    [self EXCEPT
        !.num_errors = @ + r.num_errors,
        !.num_failures = @ + r.num_failures,
        !.num_tests = r.num_tests,
        !.time = FAdd(@, r.time),
        !.test_case_results = @ \o r.test_case_results,
        !.system_out = IF r.system_out # <<>>
                       THEN @ \o <<"\n">> \o r.system_out ELSE @,
        !.system_err = IF r.system_err # <<>>
                       THEN @ \o <<"\n">> \o r.system_err ELSE @]

\* Result.accumulate (lines 206-220): self after self.accumulate(r)
Accumulate(self, r) ==
    [self EXCEPT
        !.num_errors = @ + r.num_errors,
        !.num_failures = @ + r.num_failures,
        !.num_tests = @ + r.num_tests,
        !.time = FAdd(@, r.time),
        !.test_case_results = @ \o r.test_case_results,
        !.system_out = IF r.system_out # <<>>
                       THEN @ \o <<"\n">> \o r.system_out ELSE @,
        !.system_err = IF r.system_err # <<>>
                       THEN @ \o <<"\n">> \o r.system_err ELSE @]

\* mutant of AccumulateCall: the case results are moved out of r
AccumulateCall_MovesCases(self, r) ==
    [self |-> Accumulate(self, r),
     r |-> [r EXCEPT !.test_case_results = <<>>]]

\* the two objects after the call self.accumulate(r), r being another
\* object than self: lines 212-220 read the fields of r and assign to none
AccumulateCall(self, r) == [self |-> Accumulate(self, r), r |-> r]

\* Result.add_test_case_result (lines 222-228)
AddTestCaseResult(self, tc) ==
    [self EXCEPT !.test_case_results = Append(@, tc)]

(***************************************************************************)
(* Classname normalization (_load_suite_results, lines 271-284).           *)
(***************************************************************************)
\* '__main__.'
MAIN_MARKER == <<"_", "_", "m", "a", "i", "n", "_", "_", ".">>

\* the 9 of classname.find('__main__.')+9
MainMarkerSkip == 9

\* 'rostest.rostest.RosTest'
ROSTEST_SENTINEL ==
    <<"r", "o", "s", "t", "e", "s", "t", ".", "r", "o", "s", "t", "e", "s", "t",
      ".", "R", "o", "s", "T", "e", "s", "t">>

\* 'rostest'
ROSTEST_ALIAS == <<"r", "o", "s", "t", "e", "s", "t">>

\* 'unknown'
UNKNOWN == <<"u", "n", "k", "n", "o", "w", "n">>

DOT == <<".">>

\* x or y, for strings
OrElse(x, y) == IF x # <<>> THEN x ELSE y

\* lines 275-276
StripMain(classname) ==
    IF Contains(classname, MAIN_MARKER)
    THEN SliceFrom(classname, Find(classname, MAIN_MARKER) + MainMarkerSkip)
    ELSE classname

\* mutant of AliasOrPrefix: the startswith test of line 279 is dropped
AliasOrPrefix_AlwaysPrefix(classname, name) ==
    IF classname = ROSTEST_SENTINEL THEN ROSTEST_ALIAS
    ELSE name \o DOT \o classname

\* lines 277-280: an if / elif of its own, entered whatever line 275 found
AliasOrPrefix(classname, name) ==
    IF classname = ROSTEST_SENTINEL THEN ROSTEST_ALIAS
    ELSE IF ~StartsWith(classname, name) THEN name \o DOT \o classname
    ELSE classname

\* lines 271-280: the classname given to the TestCaseResult of a testcase
\* whose classname attribute reads attr, loaded into a Result named name
NormalizeClassname(attr, name) ==
    AliasOrPrefix(StripMain(OrElse(attr, UNKNOWN)), name)

(***************************************************************************)
(* Numbers in attribute values.                                            *)
(***************************************************************************)
WHITESPACE == {" ", "\t", "\n", "\r"}

\* s.lstrip()
RECURSIVE LStrip(_)
LStrip(s) ==
    IF s # <<>> /\ Head(s) \in WHITESPACE THEN LStrip(Tail(s)) ELSE s

\* s.rstrip()
RECURSIVE RStrip(_)
RStrip(s) ==
    IF s # <<>> /\ s[Len(s)] \in WHITESPACE
    THEN RStrip(SubSeq(s, 1, Len(s) - 1)) ELSE s

\* s.strip()
Strip(s) == RStrip(LStrip(s))

DIGITS == <<"0", "1", "2", "3", "4", "5", "6", "7", "8", "9">>

IsDigit(c) == \E d \in 1..10 : DIGITS[d] = c

DigitVal(c) == (CHOOSE d \in 1..10 : DIGITS[d] = c) - 1

AllDigits(s) == \A i \in 1..Len(s) : IsDigit(s[i])

\* the number a string of digits denotes
RECURSIVE DigitsVal(_)
DigitsVal(s) ==
    IF s = <<>> THEN 0
    ELSE 10 * DigitsVal(SubSeq(s, 1, Len(s) - 1)) + DigitVal(s[Len(s)])

RECURSIVE Pow10(_)
Pow10(n) == IF n = 0 THEN 1 ELSE 10 * Pow10(n - 1)

\* str(n) for an int n
RECURSIVE NatStr(_)
NatStr(n) ==
    IF n < 10 THEN <<DIGITS[n + 1]>>
    ELSE NatStr(n \div 10) \o <<DIGITS[(n % 10) + 1]>>

IntStr(n) == IF n < 0 THEN <<"-">> \o NatStr(-n) ELSE NatStr(n)

\* int(s, 10) for a string s: blanks around an optionally signed string of
\* digits. ok = FALSE is ValueError.
ParseInt(s) ==
    LET t == Strip(s)
        signed == t # <<>> /\ Head(t) \in {"+", "-"}
        body == IF signed THEN Tail(t) ELSE t
    IN  IF body = <<>> \/ ~AllDigits(body) THEN [ok |-> FALSE, val |-> 0]
        ELSE [ok |-> TRUE,
              val |-> IF signed /\ Head(t) = "-" THEN -DigitsVal(body)
                      ELSE DigitsVal(body)]

\* lines 374-375: string.atoi(v or 0). An absent (empty) attribute becomes the
\* int 0, and string.atoi, which is int(s, 10), raises TypeError for an int;
\* any other value is parsed, ValueError when it is no number.
AtoiOrZero(v) == IF v = <<>> THEN [ok |-> FALSE, val |-> 0] ELSE ParseInt(v)

\* n / d rounded to the nearest integer, ties to even (n >= 0, d > 0)
RoundDiv(n, d) ==
    LET q == n \div d
        r == n % d
    IN  IF 2 * r > d \/ (2 * r = d /\ q % 2 = 1) THEN q + 1 ELSE q

\* float(s) for the unsigned decimal numerals digits[.digits] of the model's
\* documents, in half seconds: the float nearest to the numeral.
\* ok = FALSE is ValueError (the empty string, text that is no number).
ParseFloat(s) ==
    LET t == Strip(s)
        dot == Find(t, <<".">>)
        ip == IF dot = -1 THEN t ELSE SubSeq(t, 1, dot)
        fp == IF dot = -1 THEN <<>> ELSE SubSeq(t, dot + 2, Len(t))
    IN  IF (ip = <<>> /\ fp = <<>>) \/ ~AllDigits(ip) \/ ~AllDigits(fp)
        THEN [ok |-> FALSE, val |-> 0]
        ELSE [ok |-> TRUE,
              val |-> RoundFloat(2 * DigitsVal(ip)
                                 + RoundDiv(2 * DigitsVal(fp), Pow10(Len(fp))))]

\* str(x) for a float x of the model: its half seconds as a decimal numeral
FloatStr(x) ==
    NatStr(x \div 2) \o <<".">> \o (IF x % 2 = 1 THEN <<"5">> ELSE <<"0">>)

(***************************************************************************)
(* The document tree xml.dom.minidom builds. An element is its tagName,    *)
(* its attributes (a set of <<name, value>> pairs), the data of its text   *)
(* and CDATA children concatenated, and the sequence of its element        *)
(* children. A node is named by its path: the child indices from the root  *)
(* element, <<>> for the root element itself.                              *)
(***************************************************************************)
Elem(tag, attrs, text, kids) ==
    [tag |-> tag, attrs |-> attrs, text |-> text, kids |-> kids]

\* node.getAttribute(a): '' for an attribute the element does not carry
GetAttribute(node, a) ==
    IF \E p \in node.attrs : p[1] = a
    THEN (CHOOSE p \in node.attrs : p[1] = a)[2]
    ELSE <<>>

RECURSIVE NodeAt(_, _)
NodeAt(root, path) ==
    IF path = <<>> THEN root ELSE NodeAt(root.kids[Head(path)], Tail(path))

\* getElementsByTagName(tag) below node (node included): document order
RECURSIVE ElementsByTagName(_, _, _)
RECURSIVE KidsByTagName(_, _, _, _)
ElementsByTagName(node, path, tag) ==
    (IF node.tag = tag THEN <<path>> ELSE <<>>)
    \o KidsByTagName(node, path, tag, 1)

KidsByTagName(node, path, tag, k) ==
    IF k > Len(node.kids) THEN <<>>
    ELSE ElementsByTagName(node.kids[k], Append(path, k), tag)
         \o KidsByTagName(node, path, tag, k + 1)

\* test_suite.parentNode in test_suites[0:index] (line 369); the parent of the
\* root element is the Document, which is no element of the list
ParentInEarlier(test_suites, index) ==
    LET path == test_suites[index + 1]
    IN  /\ path # <<>>
        /\ \E j \in 1..index :
              test_suites[j] = SubSeq(path, 1, Len(path) - 1)

\* _text(tag) (lines 248-249)
Text(node) == Strip(node.text)

(***************************************************************************)
(* _load_suite_results (lines 251-300).                                    *)
(***************************************************************************)
\* the 71 of "-"*(71-len(test_suite_name))
BannerWidth == 71

\* c * n for a one-character string c: '' when n <= 0
Repeat(c, n) == [i \in 1..Max(n, 0) |-> c]

\* lines 261-262 and 266-267: "[%s] stdout" + "-"*(71-len) + '\n' + text
Banner(test_suite_name, stream, text) ==
    <<"[">> \o test_suite_name \o <<"]", " ">> \o stream
    \o Repeat("-", BannerWidth - Len(test_suite_name)) \o <<"\n">> \o text

STDOUT == <<"s", "t", "d", "o", "u", "t">>

STDERR == <<"s", "t", "d", "e", "r", "r">>

\* mutant of LoadInfo: the message attribute is taken before the body text
LoadInfo_MessageFirst(d) ==
    [type |-> GetAttribute(d, "type"),
     text |-> OrElse(GetAttribute(d, "message"), Text(d))]

\* lines 291-300: TestFailure / TestError of a failure or error child d
LoadInfo(d) ==
    [type |-> GetAttribute(d, "type"),
     text |-> OrElse(Text(d), GetAttribute(d, "message"))]

\* lines 287-300: the children of kind tag ('failure' or 'error') of a testcase
LoadInfos(node, tag) ==
    LET idx == {i \in 1..Len(node.kids) : node.kids[i].tag = tag}
        nth(k) == CHOOSE i \in idx : Cardinality({j \in idx : j < i}) = k - 1
    IN  [k \in 1..Cardinality(idx) |-> LoadInfo(node.kids[nth(k)])]

\* lines 270-300: the TestCaseResult of a testcase element; ok = FALSE is the
\* ValueError of float() at line 282
LoadTestCase(test_suite_name, node, src, result_name) ==
    LET time == ParseFloat(GetAttribute(node, "time"))
        tc == [TestCaseResult(test_suite_name \o <<"/">>
                              \o OrElse(GetAttribute(node, "name"), UNKNOWN))
                  EXCEPT !.classname =
                             NormalizeClassname(GetAttribute(node, "classname"),
                                                result_name),
                         !.time = time.val,
                         !.failures = LoadInfos(node, "failure"),
                         !.errors = LoadInfos(node, "error"),
                         !.src = src]
    IN  [ok |-> time.ok, tc |-> tc]

\* _load_suite_results(test_suite_name, test_suite, result) from the k-th
\* element child of the suite at path on. st = [raised, result]: once an
\* exception is raised the walk ends. file names the document for src.
RECURSIVE LoadSuiteFrom(_, _, _, _, _, _)
LoadSuiteFrom(test_suite_name, file, root, path, k, st) ==
    LET suite == NodeAt(root, path)
    IN  IF st.raised \/ k > Len(suite.kids) THEN st
        ELSE
          LET node == suite.kids[k]
              here == Append(path, k)
              after ==
                IF node.tag = "testsuite"
                THEN LoadSuiteFrom(test_suite_name, file, root, here, 1, st)
                ELSE IF node.tag = "system-out"
                THEN IF Text(node) # <<>>
                     THEN [st EXCEPT !.result.system_out =
                              @ \o Banner(test_suite_name, STDOUT, Text(node))]
                     ELSE st
                ELSE IF node.tag = "system-err"
                THEN IF Text(node) # <<>>
                     THEN [st EXCEPT !.result.system_err =
                              @ \o Banner(test_suite_name, STDERR, Text(node))]
                     ELSE st
                ELSE IF node.tag = "testcase"
                THEN LET l == LoadTestCase(test_suite_name, node,
                                           [file |-> file, node |-> here],
                                           st.result.name)
                     IN  IF l.ok
                         THEN [st EXCEPT !.result =
                                  AddTestCaseResult(@, l.tc)]
                         ELSE [st EXCEPT !.raised = TRUE]
                ELSE st
          IN  LoadSuiteFrom(test_suite_name, file, root, path, k + 1, after)

LoadSuiteResults(test_suite_name, file, root, path, result) ==
    LoadSuiteFrom(test_suite_name, file, root, path, 1,
                  [raised |-> FALSE, result |-> result])

(***************************************************************************)
(* read (lines 343-392). A result file is [dir, fname, kind, root]: the    *)
(* directory it lies in, its name, and what reading it meets:              *)
(*   "missing"    os.path.isfile is false (line 321)                       *)
(*   "unreadable" codecs.open raises for both encodings (lines 324, 329)   *)
(*   "empty"      no content                                               *)
(*   "blank"      white space only                                         *)
(*   "garbage"    text parseString rejects (line 358)                      *)
(*   "readonly"   a document, but the write-back of line 336 raises        *)
(*   "doc"        text that parseString turns into the tree root           *)
(***************************************************************************)
NoElem == Elem("", {}, <<>>, <<>>)

File(dir, fname, kind, root) ==
    [dir |-> dir, fname |-> fname, kind |-> kind, root |-> root]

TEST_PREFIX == <<"T", "E", "S", "T", "-">>

XML_SUFFIX == <<".", "x", "m", "l">>

\* lines 383-389: the prefix derived from the file's path
FilePrefix(dir, fname) ==
    LET f1 == IF StartsWith(fname, TEST_PREFIX) THEN SliceFrom(fname, 5)
              ELSE fname
        f2 == IF EndsWith(f1, XML_SUFFIX) THEN SubSeq(f1, 1, Len(f1) - 4)
              ELSE f1
    IN  dir \o DOT \o f2

\* lines 373-391 for one suite that is not skipped: [raised, result], result
\* being the Result accumulated into results
ReadSuite(file, path, test_name) ==
    LET test_suite == NodeAt(file.root, path)
        err == AtoiOrZero(GetAttribute(test_suite, "errors"))
        fail == AtoiOrZero(GetAttribute(test_suite, "failures"))
        tests == AtoiOrZero(GetAttribute(test_suite, "tests"))
        tattr == GetAttribute(test_suite, "time")
        time == IF Len(tattr) = 0 THEN [ok |-> TRUE, val |-> 0]
                ELSE ParseFloat(tattr)
        result == [Result(test_name, err.val, fail.val, tests.val)
                      EXCEPT !.time = time.val]
    IN  IF ~err.ok \/ ~fail.ok \/ ~tests.ok \/ ~time.ok
        THEN [raised |-> TRUE, result |-> result]
        ELSE LoadSuiteResults(FilePrefix(file.dir, file.fname),
                              <<file.dir, file.fname>>, file.root, path, result)

\* lines 367-391: the loop over test_suites from the suite of 0-based index
RECURSIVE ReadSuitesFrom(_, _, _, _, _)
ReadSuitesFrom(file, test_suites, index, test_name, st) ==
    IF st.raised \/ index >= Len(test_suites) THEN st
    ELSE IF index > 0 /\ ParentInEarlier(test_suites, index)
    THEN ReadSuitesFrom(file, test_suites, index + 1, test_name, st)
    ELSE LET r == ReadSuite(file, test_suites[index + 1], test_name)
         IN  ReadSuitesFrom(file, test_suites, index + 1, test_name,
                 IF r.raised THEN [st EXCEPT !.raised = TRUE]
                 ELSE [st EXCEPT !.result = Accumulate(@, r.result)])

\* mutant of Read: the except clause of line 359 is missing
Read_NoExcept(file, test_name) ==
    LET zero == [raised |-> FALSE, result |-> Result(test_name, 0, 0, 0)]
        exc == [raised |-> TRUE, result |-> Result(test_name, 0, 0, 0)]
    IN  IF file.kind \in {"missing", "unreadable", "readonly"} THEN exc
        ELSE IF file.kind \in {"empty", "blank"} THEN zero
        ELSE IF file.kind = "garbage" THEN exc
        ELSE LET test_suites == ElementsByTagName(file.root, <<>>, "testsuite")
             IN  IF test_suites = <<>> THEN zero
                 ELSE ReadSuitesFrom(file, test_suites, 0, test_name, zero)

\* read(test_file, test_name): [raised, result]. raised = TRUE: an exception
\* leaves read; otherwise result is the Result returned.
Read(file, test_name) ==
    LET zero == [raised |-> FALSE, result |-> Result(test_name, 0, 0, 0)]
    IN  IF file.kind \in {"missing", "unreadable", "readonly"} THEN zero
        ELSE IF file.kind \in {"empty", "blank"} THEN zero
        ELSE IF file.kind = "garbage" THEN zero
        ELSE LET test_suites == ElementsByTagName(file.root, <<>>, "testsuite")
             IN  IF test_suites = <<>> THEN zero
                 ELSE ReadSuitesFrom(file, test_suites, 0, test_name, zero)

(***************************************************************************)
(* SpecSan: _read_file_safe_xml called repeatedly on one existing file.    *)
(***************************************************************************)
\* code units the initial texts are made of: NUL, "?", "A", e-acute, a high
\* and a low surrogate
SanAlphabet == {0, QMARK, 65, 233, 55296, 56320}

SanTexts == SeqUpTo(SanAlphabet, MaxLen)

\* ISO 8859-1 files hold one byte for each character below U+0100
Latin1Texts == {t \in SanTexts : \A i \in 1..Len(t) : t[i] < 256}

SanFiles == {Utf8Encode(t) : t \in SanTexts} \cup Latin1Texts

IdleSan ==
    /\ wide = FALSE
    /\ san_bytes = <<>>
    /\ san_prev = <<>>
    /\ san_x0 = <<>>
    /\ san_x = <<>>
    /\ san_ret = <<>>
    /\ san_calls = 0

IdleNorm ==
    /\ norm_attr = <<>>
    /\ norm_name = <<>>
    /\ norm_out = <<>>
    /\ norm_pc = "idle"

IdleAcc ==
    /\ acc_in = <<>>
    /\ acc_items = <<>>
    /\ acc_status = <<>>
    /\ acc_ids = <<>>
    /\ acc_rootL = <<>>
    /\ acc_nL = 0
    /\ acc_rootR = <<>>
    /\ acc_orderR = <<>>

IdleRead ==
    /\ rd_file = <<>>
    /\ rd_name = <<>>
    /\ rd_out = <<>>
    /\ rd_pc = "idle"

IdleRT ==
    /\ rt_R = <<>>
    /\ rt_file = <<>>
    /\ rt_out = <<>>
    /\ rt_pc = "idle"

IdleRun ==
    /\ sys_stdout = ""
    /\ sys_stderr = ""
    /\ old_stdout = ""
    /\ old_stderr = ""
    /\ sio = <<>>
    /\ run_result = <<>>
    /\ in_test = 0
    /\ cb_log = <<>>
    /\ out_s = <<>>
    /\ err_s = <<>>
    /\ report = <<>>
    /\ run_pc = "idle"

IdleFh ==
    /\ fh_isfile = FALSE
    /\ fh_bytes = <<>>
    /\ fh_f = 0
    /\ fh_open = {}
    /\ fh_count = 0
    /\ fh_x = <<>>
    /\ fh_exc = FALSE
    /\ fh_pc = "idle"

IdleAll ==
    /\ results_dir = <<>>
    /\ filter_ = {}
    /\ root_result = <<>>
    /\ dirs_left = {}
    /\ subdir = <<>>
    /\ files_left = {}
    /\ read_log = <<>>
    /\ pc = "idle"

InitSan ==
    /\ IdleNorm
    /\ IdleFh
    /\ IdleRun
    /\ IdleAcc
    /\ IdleRead
    /\ IdleAll
    /\ IdleRT
    /\ wide \in BOOLEAN
    /\ san_bytes \in SanFiles
    /\ san_prev = <<>>
    /\ san_x0 = <<>>
    /\ san_x = <<>>
    /\ san_ret = <<>>
    /\ san_calls = 0

\* _read_file_safe_xml(test_file) with write_back_sanitized = True on a file
\* that exists and can be read and written
ReadFileSafeXml ==
    /\ san_calls < MaxCalls
    /\ LET x0 == DecodeFile(san_bytes, wide)
           x == SanitizeText(x0)
       IN  /\ san_x0' = x0
           /\ san_x' = x
           /\ san_ret' = Utf8Encode(x)
           /\ san_bytes' = Utf8Encode(x)
    /\ san_prev' = san_bytes
    /\ san_calls' = san_calls + 1
    /\ UNCHANGED <<wide, varsNorm, varsAcc, varsRead, varsAll, varsRT, varsRun,
                   varsFh>>

NextSan == ReadFileSafeXml

SpecSan == InitSan /\ [][NextSan]_vars

(***************************************************************************)
(* Claims about the sanitizer.                                             *)
(***************************************************************************)
\* a surrogate that is not half of a pair: a high one with no low one after
\* it, a low one with no high one before it
UnpairedSurrogate(x, i) ==
    \/ IsHighSurrogate(x[i]) /\ ~(i < Len(x) /\ IsLowSurrogate(x[i + 1]))
    \/ IsLowSurrogate(x[i]) /\ ~(i > 1 /\ IsHighSurrogate(x[i - 1]))

\* the characters the sanitizer is to replace
Offending(x, i) == IsIllegalControl(x[i]) \/ UnpairedSurrogate(x, i)

\* C6: after _read_file_safe_xml, the sanitized text holds no null character,
\* no other XML-illegal control character and no unpaired surrogate, and it
\* is the text read with each offending character, and only it, replaced by
\* one "?" (so the length in characters is unchanged).
C6_OneForOneSubstitution ==
    san_calls >= 1 =>
        /\ Len(san_x) = Len(san_x0)
        /\ \A i \in 1..Len(san_x) : ~Offending(san_x, i)
        /\ \A i \in 1..Min(Len(san_x), Len(san_x0)) :
              san_x[i] = IF Offending(san_x0, i) THEN QMARK ELSE san_x0[i]

\* C7: sanitization is idempotent: a second _read_file_safe_xml on the
\* written-back file returns the first call's output and leaves the file
\* byte-identical.
C7_SanitizeIdempotent ==
    san_calls = 2 => san_bytes = san_prev /\ san_ret = san_prev


(***************************************************************************)
(* SpecNorm: the classname normalization applied to one testcase.           *)
(***************************************************************************)
\* the pieces the classname attributes of SpecNorm are put together from
NormChunks == {MAIN_MARKER, ROSTEST_SENTINEL, <<"p", "k", "g">>, DOT, <<"T">>}

NormAttrs == {Concat(cs) : cs \in SeqUpTo(NormChunks, MaxChunks)}

NormNames == {<<"p", "k", "g">>, <<"T">>, ROSTEST_ALIAS, <<>>}

InitNorm ==
    /\ IdleSan
    /\ IdleFh
    /\ IdleRun
    /\ IdleAcc
    /\ IdleRead
    /\ IdleAll
    /\ IdleRT
    /\ norm_attr \in NormAttrs
    /\ norm_name \in NormNames
    /\ norm_out = <<>>
    /\ norm_pc = "start"

\* the testcase branch of _load_suite_results up to line 284
LoadClassname ==
    /\ norm_pc = "start"
    /\ norm_out' = NormalizeClassname(norm_attr, norm_name)
    /\ norm_pc' = "done"
    /\ UNCHANGED <<norm_attr, norm_name, varsSan, varsAcc, varsRead, varsAll, varsRT,
                   varsRun, varsFh>>

NextNorm == LoadClassname

SpecNorm == InitNorm /\ [][NextNorm]_vars

\* the raw classname: the attribute, 'unknown' standing in for an empty one
RawClassname == OrElse(norm_attr, UNKNOWN)

\* the text after the first '__main__.' of s (s itself without the marker)
AfterMarker(s) ==
    IF \E k \in 0..Len(s) : OccursAt(s, MAIN_MARKER, k)
    THEN LET k == CHOOSE k \in 0..Len(s) :
                     /\ OccursAt(s, MAIN_MARKER, k)
                     /\ \A j \in 0..Len(s) : OccursAt(s, MAIN_MARKER, j) => k <= j
         IN  SubSeq(s, k + Len(MAIN_MARKER) + 1, Len(s))
    ELSE s

\* C9 as claimed: exactly the first matching rule of three is applied.
C9_FirstMatchWins ==
    norm_pc = "done" =>
        norm_out =
            IF Contains(RawClassname, MAIN_MARKER) THEN AfterMarker(RawClassname)
            ELSE IF RawClassname = ROSTEST_SENTINEL THEN ROSTEST_ALIAS
            ELSE IF ~StartsWith(RawClassname, norm_name)
                 THEN norm_name \o DOT \o RawClassname
            ELSE RawClassname

\* C9 (amended): rule 1 strips the text up to and including the first
\* '__main__.'; then, whether or not rule 1 applied, the stripped text becomes
\* 'rostest' when it is the sentinel, else '<name>.<text>' when it does not
\* start with the Result's name, else it is left unchanged.
C9_StripThenAliasOrPrefix ==
    norm_pc = "done" =>
        LET s == AfterMarker(RawClassname)
        IN  /\ s = ROSTEST_SENTINEL => norm_out = ROSTEST_ALIAS
            /\ s # ROSTEST_SENTINEL /\ StartsWith(s, norm_name) => norm_out = s
            /\ s # ROSTEST_SENTINEL /\ ~StartsWith(s, norm_name)
                  => norm_out = norm_name \o DOT \o s

\* C9 witness: '__main__.T' loaded into the Result 'pkg' became 'pkg.T'.
C9_Witness ==
    /\ norm_pc = "done"
    /\ norm_attr = MAIN_MARKER \o <<"T">>
    /\ norm_name = <<"p", "k", "g">>
    /\ norm_out = <<"p", "k", "g", ".", "T">>


(***************************************************************************)
(* SpecAcc: three Results folded into two zero roots, the first in the     *)
(* order A, B, C, the second in any order and grouping.                    *)
(***************************************************************************)
\* (num_errors, num_failures, num_tests) of the Results folded
AccCounts == {<<0, 0, 0>>, <<1, 2, 4>>, <<2, 0, 3>>}

\* their times: none, one unit, and the least time whose neighbours are more
\* than one unit apart
AccTimes == {0, 1, Pow2(MantBits)}

\* the i-th of the three Results: i - 1 case results, output on the first
AccResult(i, c, t) ==
    [Result(<<"r">>, c[1], c[2], c[3]) EXCEPT
        !.time = t,
        !.test_case_results =
            [k \in 1..(i - 1) |-> TestCaseResult(<<"c", ToString(i), ToString(k)>>)],
        !.system_out = IF i = 1 THEN <<"o">> ELSE <<>>]

AccInputs ==
    {<<AccResult(1, c[1], t[1]), AccResult(2, c[2], t[2]),
       AccResult(3, c[3], t[3])>> :
        c \in [1..3 -> AccCounts], t \in [1..3 -> AccTimes]}

InitAcc ==
    /\ IdleSan
    /\ IdleFh
    /\ IdleRun
    /\ IdleNorm
    /\ IdleRead
    /\ IdleAll
    /\ IdleRT
    /\ acc_in \in AccInputs
    /\ acc_items = acc_in
    /\ acc_status = [i \in 1..3 |-> "free"]
    /\ acc_ids = [i \in 1..3 |-> <<i>>]
    /\ acc_rootL = Result(<<"r", "o", "s">>, 0, 0, 0)
    /\ acc_nL = 0
    /\ acc_rootR = Result(<<"r", "o", "s">>, 0, 0, 0)
    /\ acc_orderR = <<>>

\* acc_rootL.accumulate(next of A, B, C)
AccumulateLeft ==
    /\ acc_in # <<>>
    /\ acc_nL < 3
    /\ acc_rootL' = Accumulate(acc_rootL, acc_in[acc_nL + 1])
    /\ acc_nL' = acc_nL + 1
    /\ UNCHANGED <<acc_in, acc_items, acc_status, acc_ids, acc_rootR,
                   acc_orderR, varsSan, varsNorm, varsRead, varsAll, varsRT,
                   varsRun, varsFh>>

\* x.accumulate(y) for two of the Results not folded yet: a grouping
AccumulateInner ==
    /\ acc_nL = 3
    /\ \E i \in 1..3, j \in 1..3 :
          /\ i # j
          /\ acc_status[i] = "free"
          /\ acc_status[j] = "free"
          /\ LET after == AccumulateCall(acc_items[i], acc_items[j])
             IN  acc_items' = [acc_items EXCEPT ![i] = after.self,
                                                ![j] = after.r]
          /\ acc_status' = [acc_status EXCEPT ![j] = "absorbed"]
          /\ acc_ids' = [acc_ids EXCEPT ![i] = acc_ids[i] \o acc_ids[j]]
    /\ UNCHANGED <<acc_in, acc_rootL, acc_nL, acc_rootR, acc_orderR, varsSan,
                   varsNorm, varsRead, varsAll, varsRT, varsRun, varsFh>>

\* acc_rootR.accumulate(x) for any Result x not folded yet
AccumulateRight ==
    /\ acc_nL = 3
    /\ \E i \in 1..3 :
          /\ acc_status[i] = "free"
          /\ LET after == AccumulateCall(acc_rootR, acc_items[i])
             IN  /\ acc_rootR' = after.self
                 /\ acc_items' = [acc_items EXCEPT ![i] = after.r]
          /\ acc_status' = [acc_status EXCEPT ![i] = "folded"]
          /\ acc_orderR' = acc_orderR \o acc_ids[i]
    /\ UNCHANGED <<acc_in, acc_ids, acc_rootL, acc_nL, varsSan,
                   varsNorm, varsRead, varsAll, varsRT, varsRun, varsFh>>

NextAcc == AccumulateLeft \/ AccumulateInner \/ AccumulateRight

SpecAcc == InitAcc /\ [][NextAcc]_vars

\* both folds are complete
AccDone ==
    /\ acc_in # <<>>
    /\ acc_nL = 3
    /\ \A i \in 1..3 : acc_status[i] # "free"

\* the case results of the inputs ids, concatenated in this order
RECURSIVE AccCases(_)
AccCases(ids) ==
    IF ids = <<>> THEN <<>>
    ELSE acc_in[Head(ids)].test_case_results \o AccCases(Tail(ids))

AccSameCounts ==
    /\ acc_rootR.num_tests = acc_rootL.num_tests
    /\ acc_rootR.num_errors = acc_rootL.num_errors
    /\ acc_rootR.num_failures = acc_rootL.num_failures

AccCasesInFoldOrder ==
    /\ acc_rootL.test_case_results = AccCases(<<1, 2, 3>>)
    /\ acc_rootR.test_case_results = AccCases(acc_orderR)

\* C4 as claimed: any order and any grouping of the folds of A, B, C yields
\* identical counts and identical time, the case results being concatenated
\* in fold order.
C4_OrderIndependentCountsAndTime ==
    AccDone =>
        /\ AccSameCounts
        /\ acc_rootR.time = acc_rootL.time
        /\ AccCasesInFoldOrder

\* C4 (amended): the counts are identical for any order and grouping; the
\* time is identical when only the first two Results are exchanged or
\* grouped (C folded last, on its own); the case results are concatenated in
\* fold order.
C4_CountsOrderIndependent ==
    AccDone =>
        /\ AccSameCounts
        /\ (acc_orderR[3] = 3 /\ acc_status[3] = "folded"
               /\ acc_ids[3] = <<3>>
               => acc_rootR.time = acc_rootL.time)
        /\ AccCasesInFoldOrder

\* C4 witness: the second fold took the cases in the order C, A, B, with B
\* grouped into another Result before that one was folded, all three
\* Results with counts, and the two roots differ in time.
C4_Witness ==
    /\ AccDone
    /\ acc_orderR = <<3, 1, 2>>
    /\ acc_status[2] = "absorbed"
    /\ \A i \in 1..3 : acc_in[i].num_tests > 0
    /\ acc_rootR.time # acc_rootL.time


(***************************************************************************)
(* Result documents.                                                       *)
(***************************************************************************)
\* the attributes given a value (an attribute with value '' is left out:
\* getAttribute returns '' for it either way)
Attrs(pairs) == {q \in pairs : q[2] # <<>>}

SuiteEl(errors, failures, tests, time, kids) ==
    Elem("testsuite",
         Attrs({<<"errors", errors>>, <<"failures", failures>>,
                <<"tests", tests>>, <<"time", time>>}),
         <<>>, kids)

CaseEl(name, classname, time, kids) ==
    Elem("testcase",
         Attrs({<<"name", name>>, <<"classname", classname>>,
                <<"time", time>>}),
         <<>>, kids)

\* a failure or error child
InfoEl(tag, type, message, text) ==
    Elem(tag, Attrs({<<"type", type>>, <<"message", message>>}), text, <<>>)

\* any other element with element children: testsuites, properties, ...
OtherEl(kids) == Elem("other", {}, <<>>, kids)

\* system-out or system-err
OutEl(tag, text) == Elem(tag, {}, text, <<>>)

\* <testsuite tests="2" failures="1" errors="0" time="1.5">
\*   <testcase classname="a.T" name="x" time="0.5"/>
\*   <testcase classname="__main__.T" name="y" time="1.0">
\*     <failure type="E" message="boom"/></testcase>
\*   <system-out> o </system-out><system-err/></testsuite>
DocFlat ==
    SuiteEl(<<"0">>, <<"1">>, <<"2">>, <<"1", ".", "5">>,
        <<CaseEl(<<"x">>, <<"a", ".", "T">>, <<"0", ".", "5">>, <<>>),
          CaseEl(<<"y">>, MAIN_MARKER \o <<"T">>, <<"1", ".", "0">>,
                 <<InfoEl("failure", <<"E">>, <<"b", "o", "o", "m">>, <<>>)>>),
          OutEl("system-out", <<" ", "o", " ">>),
          OutEl("system-err", <<>>)>>)

\* <testsuites>
\*   <testsuite tests="2" errors="1" failures="0" time="2">
\*     <testcase name="x" time="1"><error type="E">t</error></testcase>
\*     <testsuite tests="1" errors="0" failures="0" time="0.5">
\*       <testcase name="y" time="0.5"/></testsuite></testsuite>
\*   <testsuite tests="1" errors="0" failures="0" time="1">
\*     <testcase name="z" time="1"/></testsuite></testsuites>
DocNested ==
    OtherEl(
        <<SuiteEl(<<"1">>, <<"0">>, <<"2">>, <<"2">>,
              <<CaseEl(<<"x">>, <<>>, <<"1">>,
                       <<InfoEl("error", <<"E">>, <<>>, <<"t">>)>>),
                SuiteEl(<<"0">>, <<"0">>, <<"1">>, <<"0", ".", "5">>,
                        <<CaseEl(<<"y">>, <<>>, <<"0", ".", "5">>, <<>>)>>)>>),
          SuiteEl(<<"0">>, <<"0">>, <<"1">>, <<"1">>,
                  <<CaseEl(<<"z">>, <<>>, <<"1">>, <<>>)>>)>>)

\* <testsuite tests="2" errors="0" failures="0" time="1">
\*   <other><testsuite tests="1" errors="0" failures="0" time="1">
\*     <testcase name="x" time="1"/></testsuite></other>
\*   <testcase name="y" time="1"/></testsuite>
DocWrapped ==
    SuiteEl(<<"0">>, <<"0">>, <<"2">>, <<"1">>,
        <<OtherEl(<<SuiteEl(<<"0">>, <<"0">>, <<"1">>, <<"1">>,
                            <<CaseEl(<<"x">>, <<>>, <<"1">>, <<>>)>>)>>),
          CaseEl(<<"y">>, <<>>, <<"1">>, <<>>)>>)

\* <testsuite errors="1" failures="2" tests="3" time="1">
\*   <testcase name="x" time="1">
\*     <failure type="E" message="boom"> t </failure><error/></testcase>
\*   <testcase name="y" time="1"><failure message="boom"> \n</failure>
\*   </testcase>
\*   <testcase name="z" time="1"/></testsuite>
DocInfos ==
    SuiteEl(<<"1">>, <<"2">>, <<"3">>, <<"1">>,
        <<CaseEl(<<"x">>, <<>>, <<"1">>,
                 <<InfoEl("failure", <<"E">>, <<"b", "o", "o", "m">>,
                          <<" ", "t", " ">>),
                   InfoEl("error", <<>>, <<>>, <<>>)>>),
          CaseEl(<<"y">>, <<>>, <<"1">>,
                 <<InfoEl("failure", <<>>, <<"b", "o", "o", "m">>,
                          <<" ", "\n">>)>>),
          CaseEl(<<"z">>, <<>>, <<"1">>, <<>>)>>)

\* <other><testcase name="x" time="1"/></other>: no testsuite element
DocNoSuite == OtherEl(<<CaseEl(<<"x">>, <<>>, <<"1">>, <<>>)>>)

\* values of the errors, failures and tests attributes: absent, a number,
\* no number
CountAttrs == {<<>>, <<"2">>, <<"x">>}

\* values of a time attribute: absent, a number, no number
TimeAttrs == {<<>>, <<"1", ".", "5">>, <<"x">>}

\* <testsuite errors=e failures=f tests=t time=st>
\*   <testcase name="x" classname="a.T" time=ct/></testsuite>
DocAttrs(e, f, t, st, ct) ==
    SuiteEl(e, f, t, st, <<CaseEl(<<"x">>, <<"a", ".", "T">>, ct, <<>>)>>)

AttrDocs ==
    {DocAttrs(e, f, t, st, ct) :
        e \in CountAttrs, f \in CountAttrs, t \in CountAttrs,
        st \in TimeAttrs, ct \in TimeAttrs}

ShapeDocs == {DocFlat, DocNested, DocWrapped, DocNoSuite, DocInfos}

\* the kinds of file that hold no document
PlainKinds == {"missing", "unreadable", "empty", "blank", "garbage"}

DIR_A == <<"a">>

DIR_B == <<"b">>

\* TEST-t.xml, t.xml, n.txt
FNAME_TEST_T == TEST_PREFIX \o <<"t">> \o XML_SUFFIX

FNAME_T == <<"t">> \o XML_SUFFIX

FNAME_TXT == <<"n", ".", "t", "x", "t">>

\* what a file at dir/fname may be
FilesAt(dir, fname, docs) ==
    {File(dir, fname, k, NoElem) : k \in PlainKinds}
    \cup {File(dir, fname, k, d) : k \in {"doc", "readonly"}, d \in docs}

(***************************************************************************)
(* SpecRead: one call read(test_file, test_name).                          *)
(***************************************************************************)
InitRead ==
    /\ IdleSan
    /\ IdleFh
    /\ IdleRun
    /\ IdleNorm
    /\ IdleAcc
    /\ IdleAll
    /\ IdleRT
    /\ rd_file \in FilesAt(DIR_A, FNAME_TEST_T, AttrDocs \cup ShapeDocs)
    /\ rd_name \in {DIR_A, <<"p", "k", "g">>}
    /\ rd_out = <<>>
    /\ rd_pc = "start"

\* read(test_file, test_name)
ReadCall ==
    /\ rd_pc = "start"
    /\ LET r == Read(rd_file, rd_name)
       IN  /\ rd_pc' = IF r.raised THEN "raised" ELSE "returned"
           /\ rd_out' = IF r.raised THEN <<>> ELSE r.result
    /\ UNCHANGED <<rd_file, rd_name, varsSan, varsNorm, varsAcc, varsAll, varsRT,
                   varsRun, varsFh>>

NextRead == ReadCall

SpecRead == InitRead /\ [][NextRead]_vars

\* C1: read never propagates an exception: whatever the file and whatever
\* attribute values the document carries, the call returns a Result.
C1_ReadNeverRaises == rd_pc # "raised"

\* no element of the tree below node (node included) is a testsuite
RECURSIVE NoSuiteIn(_)
NoSuiteIn(node) ==
    /\ node.tag # "testsuite"
    /\ \A k \in 1..Len(node.kids) : NoSuiteIn(node.kids[k])

\* the file is missing, empty, blank, unparsable, or a document without a
\* testsuite element
ZeroCase(file) ==
    \/ file.kind \in {"missing", "empty", "blank", "garbage"}
    \/ file.kind = "doc" /\ NoSuiteIn(file.root)

\* C2: for a missing, empty, blank or unparsable file, and for a document
\* with no testsuite element, read returns the zero Result: name = test_name,
\* all counts 0, time 0, no case results, empty system_out and system_err.
C2_ZeroResult ==
    rd_pc \in {"returned", "raised"} /\ ZeroCase(rd_file) =>
        /\ rd_pc = "returned"
        /\ rd_out.name = rd_name
        /\ rd_out.num_errors = 0
        /\ rd_out.num_failures = 0
        /\ rd_out.num_tests = 0
        /\ rd_out.time = 0
        /\ rd_out.test_case_results = <<>>
        /\ rd_out.system_out = <<>>
        /\ rd_out.system_err = <<>>

\* C2 witness: read returned for a document that has a testcase but no
\* testsuite element.
C2_Witness ==
    /\ rd_pc = "returned"
    /\ rd_file.kind = "doc"
    /\ rd_file.root = DocNoSuite
    /\ rd_name = <<"p", "k", "g">>


(***************************************************************************)
(* SpecAll: read_all(filter_) (lines 394-416) over a results directory.    *)
(* The directory has the entries a and b, which are directories, and c,    *)
(* which is a plain file; os.listdir returns entries in no fixed order.    *)
(***************************************************************************)
\* 'ros'
ROS == <<"r", "o", "s">>

DIR_C == <<"c">>

\* os.listdir(dir_)
DirEntries == {DIR_A, DIR_B, DIR_C}

\* os.path.isdir(subdir) (line 410)
IsDir(d) == d \in {DIR_A, DIR_B}

\* <testsuite errors="0" failures="0" tests="1" time="1.5">
\*   <testcase name="x" classname="a.T"/></testsuite>: no time on the testcase
DocNoTime ==
    DocAttrs(<<"0">>, <<"0">>, <<"1">>, <<"1", ".", "5">>, <<>>)

TreeDocs == {DocFlat, DocNested, DocWrapped, DocNoTime}

\* the paths a results directory of the model may hold a file at
TreePaths ==
    {<<DIR_A, FNAME_TEST_T>>, <<DIR_A, FNAME_T>>, <<DIR_B, FNAME_T>>,
     <<DIR_A, FNAME_TXT>>}

\* what the file at a path may be
TreeFilesAt(path) ==
    IF EndsWith(path[2], XML_SUFFIX)
    THEN {File(path[1], path[2], k, NoElem) : k \in {"empty", "garbage"}}
         \cup {File(path[1], path[2], "doc", d) : d \in TreeDocs}
    ELSE {File(path[1], path[2], "garbage", NoElem)}

\* the contents of the results directory: at most MaxFiles files
FileSystems ==
    UNION {{{c[q] : q \in P} : c \in {g \in [P -> UNION {TreeFilesAt(q) :
                                                        q \in P}] :
                                        \A q \in P : g[q] \in TreeFilesAt(q)}} :
           P \in {Q \in SUBSET TreePaths : Cardinality(Q) <= MaxFiles}}

InitAll ==
    /\ IdleSan
    /\ IdleFh
    /\ IdleRun
    /\ IdleNorm
    /\ IdleAcc
    /\ IdleRead
    /\ IdleRT
    /\ results_dir \in {[exists |-> e, files |-> fs] :
                           e \in BOOLEAN, fs \in FileSystems}
    /\ filter_ \in {{}, {DIR_A}, {DIR_B}}
    /\ root_result = <<>>
    /\ dirs_left = {}
    /\ subdir = <<>>
    /\ files_left = {}
    /\ read_log = <<>>
    /\ pc = "start"

\* mutant of Selected: the filter is not consulted
Selected_All(d, filter) == TRUE

\* line 407: d is not skipped by the filter
Selected(d, filter) == ~(filter # {} /\ d \notin filter)

\* lines 402-405
ReadAllEnter ==
    /\ pc = "start"
    /\ root_result' = Result(ROS, 0, 0, 0)
    /\ IF ~results_dir.exists
       THEN pc' = "returned" /\ UNCHANGED dirs_left
       ELSE pc' = "dirs" /\ dirs_left' = DirEntries
    /\ UNCHANGED <<results_dir, filter_, subdir, files_left, read_log,
                   varsSan, varsNorm, varsAcc, varsRead, varsRT, varsRun,
                   varsFh>>

\* lines 406-411: the next d of os.listdir(dir_)
NextEntry ==
    /\ pc = "dirs"
    /\ \E d \in dirs_left :
          /\ dirs_left' = dirs_left \ {d}
          /\ IF Selected(d, filter_) /\ IsDir(d)
             THEN /\ subdir' = d
                  /\ files_left' = {f \in results_dir.files : f.dir = d}
                  /\ pc' = "files"
             ELSE UNCHANGED <<subdir, files_left, pc>>
    /\ UNCHANGED <<results_dir, filter_, root_result, read_log,
                   varsSan, varsNorm, varsAcc, varsRead, varsRT, varsRun,
                   varsFh>>

\* lines 411-415: the next filename of os.listdir(subdir); an exception
\* leaving read leaves read_all
NextFile ==
    /\ pc = "files"
    /\ \E f \in files_left :
          /\ files_left' = files_left \ {f}
          /\ IF EndsWith(f.fname, XML_SUFFIX)
             THEN LET r == Read(f, subdir)
                  IN  /\ read_log' = Append(read_log, f)
                      /\ IF r.raised
                         THEN pc' = "raised" /\ UNCHANGED root_result
                         ELSE /\ root_result' = Accumulate(root_result, r.result)
                              /\ UNCHANGED pc
             ELSE UNCHANGED <<read_log, root_result, pc>>
    /\ UNCHANGED <<results_dir, filter_, dirs_left, subdir,
                   varsSan, varsNorm, varsAcc, varsRead, varsRT, varsRun,
                   varsFh>>

\* line 411: os.listdir(subdir) is exhausted
EndDir ==
    /\ pc = "files"
    /\ files_left = {}
    /\ pc' = "dirs"
    /\ UNCHANGED <<results_dir, filter_, root_result, dirs_left, subdir,
                   files_left, read_log, varsSan, varsNorm, varsAcc, varsRead,
                   varsRT, varsRun, varsFh>>

\* line 416
Return ==
    /\ pc = "dirs"
    /\ dirs_left = {}
    /\ pc' = "returned"
    /\ UNCHANGED <<results_dir, filter_, root_result, dirs_left, subdir,
                   files_left, read_log, varsSan, varsNorm, varsAcc, varsRead,
                   varsRT, varsRun, varsFh>>

NextAll == ReadAllEnter \/ NextEntry \/ NextFile \/ EndDir \/ Return

SpecAll == InitAll /\ [][NextAll]_vars

\* the files the claim has read_all read: the files ending in '.xml' of the
\* subdirectories the filter admits
MatchingFiles ==
    {f \in results_dir.files :
        /\ EndsWith(f.fname, XML_SUFFIX)
        /\ filter_ = {} \/ f.dir \in filter_}

\* the fold of read(file, subdir-name) over the first n files of log into the
\* zero root
RECURSIVE FoldReads(_, _)
FoldReads(log, n) ==
    IF n = 0 THEN Result(ROS, 0, 0, 0)
    ELSE Accumulate(FoldReads(log, n - 1), Read(log[n], log[n].dir).result)

\* C3: when read_all returns, the root Result is named 'ros' and its counts,
\* time and case results are the fold of read(file, subdir-name) over exactly
\* the '.xml' files of the subdirectories the filter admits (all of them
\* for an empty filter), each read once; a missing results root gives the
\* zero root. read_all ends without returning only when a read of one of
\* these files raises.
C3_ReadAllIsFoldOfRead ==
    LET log == read_log
        fold == FoldReads(log, Len(log))
    IN  /\ pc = "returned" /\ ~results_dir.exists =>
               root_result = Result(ROS, 0, 0, 0)
        /\ pc = "returned" /\ results_dir.exists =>
               /\ {log[i] : i \in 1..Len(log)} = MatchingFiles
               /\ Len(log) = Cardinality(MatchingFiles)
               /\ \A i \in 1..Len(log) : ~Read(log[i], log[i].dir).raised
               /\ root_result.name = ROS
               /\ root_result.num_errors = fold.num_errors
               /\ root_result.num_failures = fold.num_failures
               /\ root_result.num_tests = fold.num_tests
               /\ root_result.time = fold.time
               /\ root_result.test_case_results = fold.test_case_results
        /\ pc = "raised" =>
               /\ log # <<>>
               /\ log[Len(log)] \in MatchingFiles
               /\ Read(log[Len(log)], log[Len(log)].dir).raised

\* C3 witness: read_all returned with filter_ = ['a'] over a directory that
\* holds a result file in a and one in b; only the file of a was read.
C3_Witness ==
    /\ pc = "returned"
    /\ filter_ = {DIR_A}
    /\ \E f \in results_dir.files : f.dir = DIR_B /\ f.kind = "doc"
    /\ Len(read_log) = 1
    /\ read_log[1].dir = DIR_A
    /\ root_result.num_tests > 0
    /\ root_result.test_case_results # <<>>

\* position in read_log of the file a case result was loaded from
FileIndex(tc) ==
    CHOOSE i \in 1..Len(read_log) :
        <<read_log[i].dir, read_log[i].fname>> = tc.src.file

\* the element at path p precedes the element at path q in document order
RECURSIVE PathBefore(_, _)
PathBefore(p, q) ==
    IF p = <<>> THEN q # <<>>
    ELSE IF q = <<>> THEN FALSE
    ELSE IF Head(p) # Head(q) THEN Head(p) < Head(q)
    ELSE PathBefore(Tail(p), Tail(q))

\* C5: after read_all, the root's case results are grouped by file in the
\* order the files were read, and the case results of one file are in the
\* document order of their testcase elements.
C5_GroupedInDocumentOrder ==
    pc = "returned" =>
        LET cases == root_result.test_case_results
        IN  \A i, j \in 1..Len(cases) :
                i < j =>
                    \/ FileIndex(cases[i]) < FileIndex(cases[j])
                    \/ /\ FileIndex(cases[i]) = FileIndex(cases[j])
                       /\ PathBefore(cases[i].src.node, cases[j].src.node)

\* the name attribute of the testcase element a case result was loaded from
RawName(tc) ==
    LET f == CHOOSE g \in results_dir.files : <<g.dir, g.fname>> = tc.src.file
    IN  GetAttribute(NodeAt(f.root, tc.src.node), "name")

\* C10: two testcases of the same name in two different result files read by
\* read_all give two case results whose name fields differ.
C10_NamesNeverCollide ==
    pc = "returned" =>
        LET cases == root_result.test_case_results
        IN  \A i, j \in 1..Len(cases) :
                /\ cases[i].src.file # cases[j].src.file
                /\ RawName(cases[i]) = RawName(cases[j])
                => cases[i].name # cases[j].name


(***************************************************************************)
(* SpecRT: Result.xml (lines 230-246) written to the file a/TEST-t.xml,    *)
(* and read of that file under R's name. The names, classnames and types   *)
(* of the model's Results are made of letters, '.', '_' and '/', which     *)
(* ElementTree writes and the parser reads back unchanged.                 *)
(***************************************************************************)
\* the character U+0007
BEL == "BEL"

\* line 64: the characters outside U+0020..U+D7FF, tab, LF, CR and
\* U+E000..U+FFFD are deleted
FilterNonprintableText(text) == SelectSeq(text, LAMBDA c : c # BEL)

\* TestInfo (lines 76-88)
TestInfo(type, text) == [type |-> type, text |-> text]

\* TestError.xml, TestFailure.xml (lines 90-107), with the text as line 70
\* writes it between '<![CDATA[' and ']]>'
InfoXml(tag, info) ==
    Elem(tag, Attrs({<<"type", info.type>>}),
         FilterNonprintableText(info.text), <<>>)

\* TestCaseResult.xml (lines 183-191)
CaseXml(tc) ==
    Elem("testcase",
         Attrs({<<"classname", tc.classname>>, <<"name", tc.name>>,
                <<"time", FloatStr(tc.time)>>}),
         <<>>,
         [k \in 1..Len(tc.failures) |-> InfoXml("failure", tc.failures[k])]
         \o [k \in 1..Len(tc.errors) |-> InfoXml("error", tc.errors[k])])

\* mutant of ResultXml: the tests attribute is written from num_failures
ResultXml_TestsFromFailures(R) ==
    Elem("testsuite",
         Attrs({<<"tests", IntStr(R.num_failures)>>,
                <<"failures", IntStr(R.num_failures)>>,
                <<"time", FloatStr(R.time)>>,
                <<"errors", IntStr(R.num_errors)>>,
                <<"name", R.name>>}),
         <<>>,
         [k \in 1..Len(R.test_case_results) |->
             CaseXml(R.test_case_results[k])]
         \o <<OutEl("system-out", FilterNonprintableText(R.system_out)),
              OutEl("system-err", FilterNonprintableText(R.system_err))>>)

\* Result.xml (lines 230-246): the tree serialized
ResultXml(R) ==
    Elem("testsuite",
         Attrs({<<"tests", IntStr(R.num_tests)>>,
                <<"failures", IntStr(R.num_failures)>>,
                <<"time", FloatStr(R.time)>>,
                <<"errors", IntStr(R.num_errors)>>,
                <<"name", R.name>>}),
         <<>>,
         [k \in 1..Len(R.test_case_results) |->
             CaseXml(R.test_case_results[k])]
         \o <<OutEl("system-out", FilterNonprintableText(R.system_out)),
              OutEl("system-err", FilterNonprintableText(R.system_err))>>)

\* ']]>'
CDATA_END == <<"]", "]", ">">>

\* the text written for some CDATA section of the tree holds ']]>': line 70
\* writes it as it is, the section ends there, and the ']]>' that line 70
\* appends is left in character data, which no XML parser accepts
RECURSIVE CdataBroken(_)
CdataBroken(node) ==
    \/ Contains(node.text, CDATA_END)
    \/ \E k \in 1..Len(node.kids) : CdataBroken(node.kids[k])

\* the parser's end-of-line handling: CR LF and a lone CR are read as LF
RECURSIVE NormalizeEol(_)
NormalizeEol(text) ==
    IF text = <<>> THEN <<>>
    ELSE IF Head(text) = "\r"
    THEN <<"\n">> \o NormalizeEol(IF Len(text) > 1 /\ text[2] = "\n"
                                  THEN Tail(Tail(text)) ELSE Tail(text))
    ELSE <<Head(text)>> \o NormalizeEol(Tail(text))

\* the tree parseString builds for the tree serialized
RECURSIVE Parsed(_)
Parsed(node) ==
    Elem(node.tag, node.attrs, NormalizeEol(node.text),
         [k \in 1..Len(node.kids) |-> Parsed(node.kids[k])])

\* the file a/TEST-t.xml holding the serialization of tree
XmlFile(tree) ==
    IF CdataBroken(tree) THEN File(DIR_A, FNAME_TEST_T, "garbage", NoElem)
    ELSE File(DIR_A, FNAME_TEST_T, "doc", Parsed(tree))

\* a TestCaseResult as a test runner builds it
RTCase(name, classname, time, failures, errors) ==
    [TestCaseResult(name) EXCEPT !.classname = classname, !.time = time,
                                 !.failures = failures, !.errors = errors]

BOOM == <<"b", "o", "o", "m">>

\* the case results the model's Results are made of
RTCases ==
    {RTCase(<<"x">>, <<"a", ".", "T">>, 1, <<>>, <<>>),
     RTCase(<<>>, <<>>, 0, <<TestInfo(<<"E">>, BOOM)>>, <<>>),
     RTCase(<<"y">>, ROSTEST_ALIAS, 2, <<>>,
            <<TestInfo(<<>>, <<" ", "b", "\r", "\n", "c", " ">>)>>),
     RTCase(<<"x">>, MAIN_MARKER \o <<"T">>, 3,
            <<TestInfo(<<"E">>, <<BEL, "b">>)>>,
            <<TestInfo(<<"E">>, <<" ">>)>>),
     RTCase(<<"z">>, <<"a", ".", "T">>, 1,
            <<TestInfo(<<"E">>, <<"b">> \o CDATA_END)>>, <<>>)}

RTResults ==
    {[Result(n, c[1], c[2], c[3]) EXCEPT
         !.time = t, !.system_out = o, !.test_case_results = cs] :
       n \in {DIR_A, <<"p", "k", "g">>}, c \in {<<0, 0, 0>>, <<1, 2, 4>>},
       t \in {0, 3}, o \in {<<>>, <<"o">>}, cs \in SeqUpTo(RTCases, MaxCases)}

InitRT ==
    /\ IdleSan
    /\ IdleFh
    /\ IdleRun
    /\ IdleNorm
    /\ IdleAcc
    /\ IdleRead
    /\ IdleAll
    /\ rt_R \in RTResults
    /\ rt_file = <<>>
    /\ rt_out = <<>>
    /\ rt_pc = "start"

\* the file is written with R.xml()
WriteXml ==
    /\ rt_pc = "start"
    /\ rt_file' = XmlFile(ResultXml(rt_R))
    /\ rt_pc' = "written"
    /\ UNCHANGED <<rt_R, rt_out, varsSan, varsNorm, varsAcc, varsRead,
                   varsAll, varsRun, varsFh>>

\* read(file, R.name)
ReadBack ==
    /\ rt_pc = "written"
    /\ LET r == Read(rt_file, rt_R.name)
       IN  /\ rt_pc' = IF r.raised THEN "raised" ELSE "returned"
           /\ rt_out' = IF r.raised THEN <<>> ELSE r.result
    /\ UNCHANGED <<rt_R, rt_file, varsSan, varsNorm, varsAcc, varsRead,
                   varsAll, varsRun, varsFh>>

NextRT == WriteXml \/ ReadBack

SpecRT == InitRT /\ [][NextRT]_vars

\* the texts of a sequence of failures or errors
Texts(infos) == [k \in 1..Len(infos) |-> infos[k].text]

\* the (classname, name, passed) tuples of a sequence of case results
PassTuples(cases) ==
    {<<cases[k].classname, cases[k].name, Passed(cases[k])>> :
        k \in 1..Len(cases)}

\* the same with the texts of the failures and of the errors
TextTuples(cases) ==
    {<<cases[k].classname, cases[k].name, Texts(cases[k].failures),
       Texts(cases[k].errors)>> : k \in 1..Len(cases)}

HoldsCdataEnd(R) ==
    \/ Contains(FilterNonprintableText(R.system_out), CDATA_END)
    \/ Contains(FilterNonprintableText(R.system_err), CDATA_END)
    \/ \E k \in 1..Len(R.test_case_results) :
          \E info \in {R.test_case_results[k].failures[i] :
                          i \in 1..Len(R.test_case_results[k].failures)}
                      \cup {R.test_case_results[k].errors[i] :
                          i \in 1..Len(R.test_case_results[k].errors)} :
              Contains(FilterNonprintableText(info.text), CDATA_END)

\* a text as it is read back
TextReadBack(text) == Strip(NormalizeEol(FilterNonprintableText(text)))

\* a failure or an error as it is read back
InfosReadBack(infos) ==
    [k \in 1..Len(infos) |->
        TestInfo(infos[k].type, TextReadBack(infos[k].text))]

TagPaths(file, tag) == ElementsByTagName(file.root, <<>>, tag)

\* the element at path has an ancestor that is a testsuite element
HasSuiteAncestor(root, path) ==
    \E n \in 0..(Len(path) - 1) : NodeAt(root, SubSeq(path, 1, n)).tag = "testsuite"

\* the testsuite elements without a testsuite ancestor, in document order
OutermostSuites(file) ==
    SelectSeq(TagPaths(file, "testsuite"),
              LAMBDA q : ~HasSuiteAncestor(file.root, q))

\* the sum of the integer attribute a over the first n suites of paths
RECURSIVE SumAttr(_, _, _, _)
SumAttr(file, paths, a, n) ==
    IF n = 0 THEN 0
    ELSE SumAttr(file, paths, a, n - 1)
         + ParseInt(GetAttribute(NodeAt(file.root, paths[n]), a)).val

\* the float sum, in document order, of the time attribute over the first n
\* suites of paths
RECURSIVE SumTime(_, _, _)
SumTime(file, paths, n) ==
    IF n = 0 THEN 0
    ELSE FAdd(SumTime(file, paths, n - 1),
              ParseFloat(GetAttribute(NodeAt(file.root, paths[n]), "time")).val)

\* C11: when read returns for a document, its counts and time are the sums
\* of the attributes of the testsuite elements that have no testsuite
\* ancestor, and every testcase element below a testsuite gives exactly one
\* case result.
C11_OnlyOutermostSuitesCounted ==
    rd_pc = "returned" /\ rd_file.kind = "doc" =>
        LET outer == OutermostSuites(rd_file)
            cases == rd_out.test_case_results
        IN  /\ rd_out.num_errors
                   = SumAttr(rd_file, outer, "errors", Len(outer))
            /\ rd_out.num_failures
                   = SumAttr(rd_file, outer, "failures", Len(outer))
            /\ rd_out.num_tests = SumAttr(rd_file, outer, "tests", Len(outer))
            /\ rd_out.time = SumTime(rd_file, outer, Len(outer))
            /\ \A q \in {TagPaths(rd_file, "testcase")[k] :
                            k \in 1..Len(TagPaths(rd_file, "testcase"))} :
                   HasSuiteAncestor(rd_file.root, q) =>
                       Cardinality({k \in 1..Len(cases) :
                                       cases[k].src.node = q}) = 1


\* the number an integer attribute value denotes, 0 when it denotes none
IntOrZero(v) == IF ParseInt(v).ok THEN ParseInt(v).val ELSE 0

\* the number a float attribute value denotes, 0.0 when it denotes none
FloatOrZero(v) == IF ParseFloat(v).ok THEN ParseFloat(v).val ELSE 0

\* C12: for a document of one testsuite with one testcase, read returns,
\* each count and the time of the Result is the number its attribute denotes
\* or 0 when the attribute is absent or no number, and the testcase gives a
\* case result whose time is the number its time attribute denotes or 0.0.
C12_NumericAttributesDefaultToZero ==
    rd_pc \in {"returned", "raised"} /\ rd_file.kind = "doc"
    /\ rd_file.root \in AttrDocs =>
        LET suite == rd_file.root
        IN  /\ rd_pc = "returned"
            /\ rd_out.num_errors = IntOrZero(GetAttribute(suite, "errors"))
            /\ rd_out.num_failures
                   = IntOrZero(GetAttribute(suite, "failures"))
            /\ rd_out.num_tests = IntOrZero(GetAttribute(suite, "tests"))
            /\ rd_out.time = FloatOrZero(GetAttribute(suite, "time"))
            /\ Len(rd_out.test_case_results) = 1
            /\ rd_out.test_case_results[1].time
                   = FloatOrZero(GetAttribute(suite.kids[1], "time"))


(***************************************************************************)
(* SpecRun: XMLTestRunner.run (xmlrunner.py, lines 210-247) with the       *)
(* callbacks unittest makes on the _XMLTestResult while test(result) runs. *)
(* Stream objects are named by strings; an exc_info triple is the tuple    *)
(* <<kind, test, serial>> of the callback that reported it, None is <<>>.  *)
(***************************************************************************)
\* the streams the caller of run may have installed
ConsoleOut == "sys.__stdout__"

ConsoleErr == "sys.__stderr__"

CallerStream == "stream of the caller"

\* the StringIO objects of lines 222 and 223
SioOut == "StringIO of line 222"

SioErr == "StringIO of line 223"

\* XMLTestRunnerTest.NullStream (lines 381-384): it has no getvalue
NullStreamObj == "NullStream"

None == <<>>

\* _TestInfo.__init__ and the create_ functions (lines 40-57); test.id() is
\* 'm.T.t<test>'
TestInfoOf(test, time, error, failure) ==
    [test |-> test, time |-> time, error |-> error, failure |-> failure]

\* _XMLTestResult.__init__ (lines 116-122) with the fields of
\* unittest.TestResult it relies on
XMLTestResult ==
    [tests |-> <<>>, error |-> None, failure |-> None, errors |-> <<>>,
     failures |-> <<>>, testsRun |-> 0]

\* what the test execution did: a callback or a statement of a test
Event(cb, test) == [cb |-> cb, test |-> test]

InitRun ==
    /\ IdleSan
    /\ IdleFh
    /\ IdleNorm
    /\ IdleAcc
    /\ IdleRead
    /\ IdleAll
    /\ IdleRT
    /\ sys_stdout \in {ConsoleOut, CallerStream}
    /\ sys_stderr \in {ConsoleErr, CallerStream}
    /\ old_stdout = ""
    /\ old_stderr = ""
    /\ sio = [out |-> <<>>, err |-> <<>>]
    /\ run_result = XMLTestResult
    /\ in_test = 0
    /\ cb_log = <<>>
    /\ out_s = <<>>
    /\ err_s = <<>>
    /\ report = <<>>
    /\ run_pc = "start"

varsOther == <<varsSan, varsNorm, varsAcc, varsRead, varsAll, varsRT, varsFh>>

\* run, lines 211-225: up to the call test(result)
RunEnter ==
    /\ run_pc = "start"
    /\ run_result' = XMLTestResult
    /\ old_stdout' = sys_stdout
    /\ old_stderr' = sys_stderr
    /\ sys_stdout' = SioOut
    /\ sys_stderr' = SioErr
    /\ run_pc' = "tests"
    /\ UNCHANGED <<sio, in_test, cb_log, out_s, err_s, report, varsOther>>

\* mutant of StartTestResult: _error and _failure are not reset
StartTestResult_NoReset(r) == [r EXCEPT !.testsRun = @ + 1]

\* _XMLTestResult.startTest (lines 124-128) on the result r
StartTestResult(r) ==
    [r EXCEPT !.testsRun = @ + 1, !.error = None, !.failure = None]

\* unittest calls startTest for the next test
StartTest ==
    /\ run_pc = "tests"
    /\ in_test = 0
    /\ run_result.testsRun < MaxTests
    /\ run_result' = StartTestResult(run_result)
    /\ in_test' = run_result.testsRun + 1
    /\ cb_log' = Append(cb_log, Event("startTest", run_result.testsRun + 1))
    /\ UNCHANGED <<sys_stdout, sys_stderr, old_stdout, old_stderr, sio, out_s,
                   err_s, report, run_pc, varsOther>>

\* the number of addError and addFailure calls so far
Reports == Len(run_result.errors) + Len(run_result.failures)

\* _XMLTestResult.addError (lines 140-142): for the running test, or for a
\* class or module fixture when no test is running
AddError ==
    /\ run_pc = "tests"
    /\ Reports < MaxReports
    /\ LET err == <<"error", in_test, Len(cb_log) + 1>>
       IN  run_result' = [run_result EXCEPT !.errors = Append(@, err),
                                            !.error = err]
    /\ cb_log' = Append(cb_log, Event("addError", in_test))
    /\ UNCHANGED <<sys_stdout, sys_stderr, old_stdout, old_stderr, sio,
                   in_test, out_s, err_s, report, run_pc, varsOther>>

\* _XMLTestResult.addFailure (lines 144-146) for the running test
AddFailure ==
    /\ run_pc = "tests"
    /\ in_test # 0
    /\ Reports < MaxReports
    /\ LET err == <<"failure", in_test, Len(cb_log) + 1>>
       IN  run_result' = [run_result EXCEPT !.failures = Append(@, err),
                                            !.failure = err]
    /\ cb_log' = Append(cb_log, Event("addFailure", in_test))
    /\ UNCHANGED <<sys_stdout, sys_stderr, old_stdout, old_stderr, sio,
                   in_test, out_s, err_s, report, run_pc, varsOther>>

\* time.time() - start for the runs of the model, in seconds
Elapsed == {1}

\* _XMLTestResult.stopTest (lines 130-138)
StopTest ==
    /\ run_pc = "tests"
    /\ in_test # 0
    /\ \E time_taken \in Elapsed :
          LET info == IF run_result.error # None
                      THEN TestInfoOf(in_test, time_taken, run_result.error,
                                      None)
                      ELSE IF run_result.failure # None
                      THEN TestInfoOf(in_test, time_taken, None,
                                      run_result.failure)
                      ELSE TestInfoOf(in_test, time_taken, None, None)
          IN  run_result' = [run_result EXCEPT !.tests = Append(@, info)]
    /\ in_test' = 0
    /\ cb_log' = Append(cb_log, Event("stopTest", in_test))
    /\ UNCHANGED <<sys_stdout, sys_stderr, old_stdout, old_stderr, sio, out_s,
                   err_s, report, run_pc, varsOther>>

\* a test replaces sys.stdout or sys.stderr by a NullStream and does not put
\* the old object back (lines 391-395 and 404-406)
TestReplacesStream ==
    /\ run_pc = "tests"
    /\ in_test # 0
    /\ \/ /\ sys_stdout # NullStreamObj
          /\ sys_stdout' = NullStreamObj
          /\ cb_log' = Append(cb_log, Event("stdout", in_test))
          /\ UNCHANGED sys_stderr
       \/ /\ sys_stderr # NullStreamObj
          /\ sys_stderr' = NullStreamObj
          /\ cb_log' = Append(cb_log, Event("stderr", in_test))
          /\ UNCHANGED sys_stdout
    /\ UNCHANGED <<old_stdout, old_stderr, sio, run_result, in_test, out_s,
                   err_s, report, run_pc, varsOther>>

\* a test writes to sys.stdout or to sys.stderr; a NullStream discards it
TestWrites ==
    /\ run_pc = "tests"
    /\ in_test # 0
    /\ Len(sio.out) + Len(sio.err) < MaxWrites
    /\ \/ /\ sys_stdout = SioOut
          /\ sio' = [sio EXCEPT !.out = Append(@, "o")]
       \/ /\ sys_stderr = SioErr
          /\ sio' = [sio EXCEPT !.err = Append(@, "e")]
    /\ UNCHANGED <<sys_stdout, sys_stderr, old_stdout, old_stderr, run_result,
                   in_test, cb_log, out_s, err_s, report, run_pc, varsOther>>

\* test(result) raises (unittest lets KeyboardInterrupt through): the finally
\* clause of lines 235-237 runs and the exception leaves run
RunInterrupted ==
    /\ run_pc = "tests"
    /\ sys_stdout' = old_stdout
    /\ sys_stderr' = old_stderr
    /\ run_pc' = "interrupted"
    /\ UNCHANGED <<old_stdout, old_stderr, sio, run_result, in_test, cb_log,
                   out_s, err_s, report, varsOther>>

\* stream.getvalue() of lines 227-234: '' on AttributeError
GetValueOrEmpty(stream, contents) ==
    IF stream = SioOut THEN contents.out
    ELSE IF stream = SioErr THEN contents.err
    ELSE <<>>

\* lines 227-237: test(result) returned; the streams are read and put back
RunCapture ==
    /\ run_pc = "tests"
    /\ in_test = 0
    /\ out_s' = GetValueOrEmpty(sys_stdout, sio)
    /\ err_s' = GetValueOrEmpty(sys_stderr, sio)
    /\ sys_stdout' = old_stdout
    /\ sys_stderr' = old_stderr
    /\ run_pc' = "restored"
    /\ UNCHANGED <<old_stdout, old_stderr, sio, run_result, in_test, cb_log,
                   report, varsOther>>

\* '%.3f' % t and '%.4f' % t for whole seconds t
FixedStr(t, digits) == NatStr(t) \o <<".">> \o Repeat("0", digits)

\* _TestInfo.print_report (lines 59-71): ok = FALSE is the IndexError of
\* line 95, where _print_error indexes the element it has just created
TestInfoReport(info) ==
    [ok |-> info.failure = None /\ info.error = None,
     el |-> CaseEl(<<"t">> \o NatStr(info.test), <<"m", ".", "T">>,
                   FixedStr(info.time, 4), <<>>)]

\* _XMLTestResult.print_report (lines 152-172): the tree written
ReportTree(r, time_taken, out, err) ==
    Elem("testsuite",
         Attrs({<<"errors", IntStr(Len(r.errors))>>,
                <<"failures", IntStr(Len(r.failures))>>,
                <<"name", <<"m", ".", "T">>>>,
                <<"tests", IntStr(r.testsRun)>>,
                <<"time", FixedStr(time_taken, 3)>>}),
         <<>>,
         [k \in 1..Len(r.tests) |-> TestInfoReport(r.tests[k]).el]
         \o <<OutEl("system-out", FilterNonprintableText(out)),
              OutEl("system-err", FilterNonprintableText(err))>>)

\* lines 239-240: result.print_report(result_file, time_taken, out_s, err_s)
RunReport ==
    /\ run_pc = "restored"
    /\ IF \A k \in 1..Len(run_result.tests) :
              TestInfoReport(run_result.tests[k]).ok
       THEN /\ \E time_taken \in Elapsed :
                  report' = ReportTree(run_result, time_taken, out_s, err_s)
            /\ run_pc' = "reported"
       ELSE /\ run_pc' = "report_raised"
            /\ UNCHANGED report
    /\ UNCHANGED <<sys_stdout, sys_stderr, old_stdout, old_stderr, sio,
                   run_result, in_test, cb_log, out_s, err_s, varsOther>>

\* lines 242-244: print_report_text writes to the stream put back; return
RunReturn ==
    /\ run_pc = "reported"
    /\ run_pc' = "returned"
    /\ UNCHANGED <<sys_stdout, sys_stderr, old_stdout, old_stderr, sio,
                   run_result, in_test, cb_log, out_s, err_s, report,
                   varsOther>>

NextRun ==
    \/ RunEnter
    \/ StartTest
    \/ AddError
    \/ AddFailure
    \/ StopTest
    \/ TestReplacesStream
    \/ TestWrites
    \/ RunInterrupted
    \/ RunCapture
    \/ RunReport
    \/ RunReturn

SpecRun == InitRun /\ [][NextRun]_vars


\* the test execution has been left: normally, or by an exception
AfterExecution ==
    run_pc \in {"restored", "reported", "returned", "report_raised",
                "interrupted"}

\* some test replaced the stream named which ("stdout" or "stderr")
Replaced(which) == \E k \in 1..Len(cb_log) : cb_log[k].cb = which

\* C13: once the test execution is left, sys.stdout and sys.stderr are the
\* objects they were before the call; when a test replaced a stream by an
\* object without getvalue, the text captured for that stream is empty and
\* run completes: no exception leaves it after test(result) has returned.
C13_StreamsRestoredAndRunCompletes ==
    /\ AfterExecution =>
           sys_stdout = old_stdout /\ sys_stderr = old_stderr
    /\ AfterExecution /\ run_pc # "interrupted" =>
           /\ Replaced("stdout") => out_s = <<>>
           /\ Replaced("stderr") => err_s = <<>>
           /\ Replaced("stdout") \/ Replaced("stderr") =>
                  run_pc # "report_raised"

\* the part of C13 about the streams alone
StreamsRestored ==
    /\ AfterExecution =>
           sys_stdout = old_stdout /\ sys_stderr = old_stderr
    /\ AfterExecution /\ run_pc # "interrupted" =>
           /\ Replaced("stdout") => out_s = <<>>
           /\ Replaced("stderr") => err_s = <<>>

\* the events of cb_log of callback cb, in order
EventsOf(cb) == SelectSeq(cb_log, LAMBDA e : e.cb = cb)

\* addError (addFailure) was called during test t
ReportedIn(cb, t) == \E k \in 1..Len(cb_log) : cb_log[k] = Event(cb, t)

ReportCases == SelectSeq(report.kids, LAMBDA el : el.tag = "testcase")

\* the number of testcase children of the report with a child of tag tag
CasesWith(tag) ==
    Cardinality({k \in 1..Len(ReportCases) :
                    \E j \in 1..Len(ReportCases[k].kids) :
                        ReportCases[k].kids[j].tag = tag})

\* C15: after a run, print_report has written a report whose tests
\* attribute is the number of its testcase elements, whose failures and
\* errors attributes are the numbers of testcase elements with a failure
\* and with an error child, and which has a system-out and a system-err
\* element.
C15_ReportAttributesAgree ==
    run_pc \in {"reported", "returned", "report_raised"} =>
        /\ run_pc # "report_raised"
        /\ GetAttribute(report, "tests") = IntStr(Len(ReportCases))
        /\ GetAttribute(report, "failures") = IntStr(CasesWith("failure"))
        /\ GetAttribute(report, "errors") = IntStr(CasesWith("error"))
        /\ \E k \in 1..Len(report.kids) : report.kids[k].tag = "system-out"
        /\ \E k \in 1..Len(report.kids) : report.kids[k].tag = "system-err"


(***************************************************************************)
(* SpecFh: the file handles of one call of _read_file_safe_xml (lines      *)
(* 313-341). A handle is a positive number; every open, read and write may *)
(* fail as the file system decides, and the UTF-8 read fails for bytes     *)
(* that are no UTF-8.                                                      *)
(***************************************************************************)
InitFh ==
    /\ IdleSan
    /\ IdleNorm
    /\ IdleAcc
    /\ IdleRead
    /\ IdleAll
    /\ IdleRT
    /\ IdleRun
    /\ fh_isfile \in BOOLEAN
    /\ fh_bytes \in SanFiles
    /\ fh_f = 0
    /\ fh_open = {}
    /\ fh_count = 0
    /\ fh_x = <<>>
    /\ fh_exc = FALSE
    /\ fh_pc = "isfile"

varsNotFh ==
    <<varsSan, varsNorm, varsAcc, varsRead, varsAll, varsRT, varsRun>>

\* lines 317-322: f = None; the file must exist
FhCheckIsFile ==
    /\ fh_pc = "isfile"
    /\ IF fh_isfile
       THEN fh_pc' = "open_utf8" /\ UNCHANGED fh_exc
       ELSE fh_pc' = "finally" /\ fh_exc' = TRUE
    /\ UNCHANGED <<fh_isfile, fh_bytes, fh_f, fh_open, fh_count, fh_x,
                   varsNotFh>>

\* line 324: f = codecs.open(test_file, "r", "utf-8")
FhOpenUtf8 ==
    /\ fh_pc = "open_utf8"
    /\ \/ /\ fh_f' = fh_count + 1
          /\ fh_count' = fh_count + 1
          /\ fh_open' = fh_open \cup {fh_count + 1}
          /\ fh_pc' = "read_utf8"
       \/ /\ fh_pc' = "except"
          /\ UNCHANGED <<fh_f, fh_count, fh_open>>
    /\ UNCHANGED <<fh_isfile, fh_bytes, fh_x, fh_exc, varsNotFh>>

\* line 325: x = f.read()
FhReadUtf8 ==
    /\ fh_pc = "read_utf8"
    /\ \E w \in BOOLEAN :
          \/ /\ Utf8Decode(fh_bytes, w).ok
             /\ fh_x' = Utf8Decode(fh_bytes, w).text
             /\ fh_pc' = "sanitize"
          \/ /\ fh_pc' = "except"
             /\ UNCHANGED fh_x
    /\ UNCHANGED <<fh_isfile, fh_bytes, fh_f, fh_open, fh_count, fh_exc,
                   varsNotFh>>

\* mutant of CloseIfSet: nothing is closed
CloseIfSet_Never(f, open) == open

\* if f is not None: f.close() (lines 327-328 and 340-341)
CloseIfSet(f, open) == IF f # 0 THEN open \ {f} ELSE open

\* lines 326-328: the except clause closes what the try opened
FhExcept ==
    /\ fh_pc = "except"
    /\ fh_open' = CloseIfSet(fh_f, fh_open)
    /\ fh_pc' = "open_latin1"
    /\ UNCHANGED <<fh_isfile, fh_bytes, fh_f, fh_count, fh_x, fh_exc,
                   varsNotFh>>

\* line 329: f = codecs.open(test_file, "r", "iso8859-1")
FhOpenLatin1 ==
    /\ fh_pc = "open_latin1"
    /\ \/ /\ fh_f' = fh_count + 1
          /\ fh_count' = fh_count + 1
          /\ fh_open' = fh_open \cup {fh_count + 1}
          /\ fh_pc' = "read_latin1"
          /\ UNCHANGED fh_exc
       \/ /\ fh_pc' = "finally"
          /\ fh_exc' = TRUE
          /\ UNCHANGED <<fh_f, fh_count, fh_open>>
    /\ UNCHANGED <<fh_isfile, fh_bytes, fh_x, varsNotFh>>

\* line 330: x = f.read()
FhReadLatin1 ==
    /\ fh_pc = "read_latin1"
    /\ \/ /\ fh_x' = Latin1Decode(fh_bytes)
          /\ fh_pc' = "sanitize"
          /\ UNCHANGED fh_exc
       \/ /\ fh_pc' = "finally"
          /\ fh_exc' = TRUE
          /\ UNCHANGED fh_x
    /\ UNCHANGED <<fh_isfile, fh_bytes, fh_f, fh_open, fh_count, varsNotFh>>

\* lines 332-334: the substitution loop and x.encode("utf-8")
FhSanitize ==
    /\ fh_pc = "sanitize"
    /\ \/ /\ fh_x' = SanitizeText(fh_x)
          /\ fh_pc' = "open_write"
          /\ UNCHANGED fh_exc
       \/ /\ fh_pc' = "finally"
          /\ fh_exc' = TRUE
          /\ UNCHANGED fh_x
    /\ UNCHANGED <<fh_isfile, fh_bytes, fh_f, fh_open, fh_count, varsNotFh>>

\* line 336: with open(test_file, 'w') as h
FhOpenWrite ==
    /\ fh_pc = "open_write"
    /\ \/ /\ fh_count' = fh_count + 1
          /\ fh_open' = fh_open \cup {fh_count + 1}
          /\ fh_pc' = "write"
          /\ UNCHANGED fh_exc
       \/ /\ fh_pc' = "finally"
          /\ fh_exc' = TRUE
          /\ UNCHANGED <<fh_count, fh_open>>
    /\ UNCHANGED <<fh_isfile, fh_bytes, fh_f, fh_x, varsNotFh>>

\* lines 337-338: h.write(x); the with statement closes h, which is the
\* handle opened last; return x
FhWrite ==
    /\ fh_pc = "write"
    /\ fh_open' = fh_open \ {fh_count}
    /\ \/ /\ fh_bytes' = Utf8Encode(fh_x)
          /\ UNCHANGED fh_exc
       \/ /\ fh_exc' = TRUE
          /\ UNCHANGED fh_bytes
    /\ fh_pc' = "finally"
    /\ UNCHANGED <<fh_isfile, fh_f, fh_count, fh_x, varsNotFh>>

\* lines 339-341: the finally clause, and the exit
FhFinally ==
    /\ fh_pc = "finally"
    /\ fh_open' = CloseIfSet(fh_f, fh_open)
    /\ fh_pc' = IF fh_exc THEN "raised" ELSE "returned"
    /\ UNCHANGED <<fh_isfile, fh_bytes, fh_f, fh_count, fh_x, fh_exc,
                   varsNotFh>>

NextFh ==
    \/ FhCheckIsFile
    \/ FhOpenUtf8
    \/ FhReadUtf8
    \/ FhExcept
    \/ FhOpenLatin1
    \/ FhReadLatin1
    \/ FhSanitize
    \/ FhOpenWrite
    \/ FhWrite
    \/ FhFinally

SpecFh == InitFh /\ [][NextFh]_vars

\* C16: when _read_file_safe_xml has been left, by return or by an
\* exception, none of the handles it opened is open.
C16_HandlesClosedOnExit ==
    fh_pc \in {"returned", "raised"} => fh_open = {}

\* C16 witness: the function was left by an exception after it had opened
\* two handles: the UTF-8 read failed and then the ISO 8859-1 read failed.
C16_Witness ==
    /\ fh_pc = "raised"
    /\ fh_count = 2
    /\ fh_f = 2
    /\ fh_x = <<>>


\* the element children of tag tag of the element el, in order
KidsOf(el, tag) == SelectSeq(el.kids, LAMBDA d : d.tag = tag)

\* the testcase element a case result of rd_out was loaded from
CaseElement(tc) == NodeAt(rd_file.root, tc.src.node)

\* C17 as stated: each failure and error child of a testcase is loaded, in
\* order, into failures and errors, with the type attribute ('' when absent)
\* and with the body text of the element when it has any, else its message
\* attribute, else ''; a case result is passed exactly when its testcase has
\* neither child.
C17_BodyTextElseMessage ==
    rd_pc = "returned" /\ rd_file.kind = "doc" =>
        \A i \in 1..Len(rd_out.test_case_results) :
            LET tc == rd_out.test_case_results[i]
                fs == KidsOf(CaseElement(tc), "failure")
                es == KidsOf(CaseElement(tc), "error")
                info(d) == [type |-> GetAttribute(d, "type"),
                            text |-> IF d.text # <<>> THEN d.text
                                     ELSE GetAttribute(d, "message")]
            IN  /\ tc.failures = [k \in 1..Len(fs) |-> info(fs[k])]
                /\ tc.errors = [k \in 1..Len(es) |-> info(es[k])]
                /\ Passed(tc) <=> fs = <<>> /\ es = <<>>

\* C17 amended: the same, the text being the body text without the white
\* space around it when that is not empty, else the message attribute, else
\* ''.
C17_StrippedBodyElseMessage ==
    rd_pc = "returned" /\ rd_file.kind = "doc" =>
        \A i \in 1..Len(rd_out.test_case_results) :
            LET tc == rd_out.test_case_results[i]
                fs == KidsOf(CaseElement(tc), "failure")
                es == KidsOf(CaseElement(tc), "error")
                info(d) == [type |-> GetAttribute(d, "type"),
                            text |-> IF Strip(d.text) # <<>> THEN Strip(d.text)
                                     ELSE GetAttribute(d, "message")]
            IN  /\ tc.failures = [k \in 1..Len(fs) |-> info(fs[k])]
                /\ tc.errors = [k \in 1..Len(es) |-> info(es[k])]
                /\ Passed(tc) <=> fs = <<>> /\ es = <<>>

\* C17 witness: read returned three case results: the first with a failure
\* whose text is the stripped body 't' (not its message) and an error with
\* empty type and text, the second with a failure whose body is blank and
\* whose text is the message, the third passed.
C17_Witness ==
    /\ rd_pc = "returned"
    /\ rd_file.kind = "doc"
    /\ Len(rd_out.test_case_results) = 3
    /\ rd_out.test_case_results[1].failures
           = <<[type |-> <<"E">>, text |-> <<"t">>]>>
    /\ rd_out.test_case_results[1].errors
           = <<[type |-> <<>>, text |-> <<>>]>>
    /\ rd_out.test_case_results[2].failures
           = <<[type |-> <<>>, text |-> <<"b", "o", "o", "m">>]>>
    /\ Passed(rd_out.test_case_results[3])


(***************************************************************************)
(* Claims about the objects of the folds (SpecAcc).                        *)
(***************************************************************************)
\* C18: a call parent.accumulate(r) leaves every field of r as it was and
\* leaves the name of parent as it was: in every step of the folds a Result
\* changes only when it is the one accumulate was called on, it keeps its
\* name then, and both roots keep the name 'ros'.
C18_AccumulateLeavesArgumentAndName ==
    [][/\ acc_rootL'.name = ROS
       /\ acc_rootR'.name = ROS
       /\ \A i \in 1..3 :
             \/ acc_items'[i] = acc_items[i]
             \/ /\ acc_ids'[i] # acc_ids[i]
                /\ acc_items'[i].name = acc_items[i].name]_vars

\* C18 witness: the Result B, which has a case result, was passed to
\* A.accumulate, and A, which had received it, was passed to the root's
\* accumulate: B is as constructed, A holds its own output and the case
\* result of B, and the root is named 'ros'.
C18_Witness ==
    /\ acc_in # <<>>
    /\ acc_status[1] = "folded"
    /\ acc_status[2] = "absorbed"
    /\ acc_ids[1] = <<1, 2>>
    /\ acc_items[2] = acc_in[2]
    /\ acc_items[2].test_case_results # <<>>
    /\ acc_items[1].test_case_results = acc_in[2].test_case_results
    /\ acc_rootR.test_case_results = acc_in[2].test_case_results
    /\ acc_rootR.name = ROS
    /\ acc_items[1].name = <<"r">>


=============================================================================
